---- MODULE Spec2Model ----
(***************************************************************************)
(* Document-review engine: the corpus reader (app/mcp/servers/reader.py),  *)
(* the operation dispatcher, the tool-dispatch loop and the fallback path  *)
(* of the orchestrator (app/mcp/orchestrator.py).                          *)
(*                                                                         *)
(* Python dicts are records whose DOMAIN is the dict's key set, Python     *)
(* lists are sequences, and an Optional value is a set with at most one    *)
(* element ({} is None).                                                   *)
(***************************************************************************)
EXTENDS Integers, Sequences, FiniteSets, TLC

VARIABLES
    corpus,          \* the documents table, in rowid order
    client,          \* ClaudeOrchestrator.client is configured (not None)
    pc,              \* position of the current analysis session
    request,         \* arguments of the current analyze_document call
    iteration,       \* _run_tool_use_loop: iteration
    tool_use_log,    \* _run_tool_use_loop: tool_use_log
    messages,        \* _run_tool_use_loop: messages (the conversation)
    response,        \* _run_tool_use_loop: response (latest planner reply)
    tool_results,    \* _run_tool_use_loop: tool_results (latest dispatch)
    outcome,         \* the dict analyze_document returned
    planner_calls,   \* number of client.messages.create invocations made
    trace,           \* capability invocations made by the latest step
    reader_call,     \* latest direct DocumentReader call: its arguments
    reader_result,   \* latest direct DocumentReader call: its payload
    analyzer_call,   \* latest direct ContradictionAnalyzer call: its arguments
    analyzer_result, \* latest direct ContradictionAnalyzer call: what it returned
    float_ties,      \* how a floating-point comparison of equal sides falls
    comparer_call,   \* latest direct DocumentComparer call: its arguments
    comparer_result, \* latest direct DocumentComparer call: what it returned
    db_handles,      \* the database sessions SessionLocal() has created
    sessions         \* the /analyze requests served by this process

vars == <<corpus, client, pc, request, iteration, tool_use_log, messages,
          response, tool_results, outcome, planner_calls, trace,
          reader_call, reader_result, analyzer_call, analyzer_result,
          float_ties, comparer_call, comparer_result, db_handles, sessions>>

session_vars == <<pc, request, iteration, tool_use_log, messages, response,
                  tool_results, outcome, planner_calls, trace>>

reader_vars == <<reader_call, reader_result>>

process_vars == <<db_handles, sessions>>

server_vars == <<analyzer_call, analyzer_result, float_ties, comparer_call,
                 comparer_result, process_vars>>

-----------------------------------------------------------------------------
(* Bounds                                                                  *)

MaxDocs == 3        \* rows of a corpus explored for the reader
MaxOther == 1       \* planner replies that are neither end_turn nor tool_use

-----------------------------------------------------------------------------
(* Optional values and small helpers                                       *)

None == {}

Some(v) == {v}

Get(o) == CHOOSE v \in o : TRUE

\* Python truthiness of an Optional[List]: None and [] are both falsy.
Truthy(o) == o # None /\ Get(o) # <<>>

Range(s) == {s[i] : i \in 1..Len(s)}

HasKey(d, k) == k \in DOMAIN d

\* All orderings of the elements of the finite set S.
Permutations_(S) ==
    {s \in [1..Cardinality(S) -> S] : \A x \in S : \E i \in DOMAIN s : s[i] = x}

-----------------------------------------------------------------------------
(* The corpus: app/models/database.py, filled by scripts/import_documents  *)
(* and by the upload endpoint.                                             *)

\* doc_id of the i-th row; doc_id is a unique column.
DocIdOf(i) == <<"DOC_A", "DOC_B", "DOC_C", "DOC_D", "DOC_E">>[i]

\* An identifier no row carries.
GhostId == "DOC_X"

Tipos == {"LEY", "DIR", "OTRO"}

Anios == {2023, 2024}

\* TIPO_CONFIG[tipo]["nivel"], with the importer's default for unknown types.
TipoNivel(tipo) ==
    CASE tipo = "LEY"  -> 1
      [] tipo = "REGL" -> 2
      [] tipo = "POL"  -> 3
      [] tipo = "DIR"  -> 4
      [] tipo = "ISO"  -> 5
      [] tipo = "NTP"  -> 5
      [] OTHER         -> 999

\* A row written by import_documents.
ImportedRow(id, tipo, anio) ==
    [doc_id |-> id, tipo |-> tipo, nivel_jerarquico |-> TipoNivel(tipo),
     anio |-> anio, content |-> "contenido de " \o id]

\* A row written by the upload endpoint: rank 4 and year 2024 whatever the type.
UploadedRow(id, tipo) ==
    [doc_id |-> id, tipo |-> tipo, nivel_jerarquico |-> 4,
     anio |-> 2024, content |-> "contenido de " \o id]

RowsFor(id) ==
    {ImportedRow(id, t, a) : t \in Tipos, a \in Anios}
        \cup {UploadedRow(id, "LEY")}

\* Every table of at most MaxDocs rows.
Corpora ==
    UNION {{c \in [1..n -> UNION {RowsFor(DocIdOf(i)) : i \in 1..n}] :
                \A i \in 1..n : c[i] \in RowsFor(DocIdOf(i))} : n \in 0..MaxDocs}

DocIds(c) == {c[i].doc_id : i \in 1..Len(c)}

-----------------------------------------------------------------------------
(* DocumentReader                                                          *)

\* query(Document).filter(Document.doc_id == doc_id).first(): None or the row.
QueryFirst(c, doc_id) ==
    IF \E i \in 1..Len(c) : c[i].doc_id = doc_id
    THEN Some(c[CHOOSE i \in 1..Len(c) : c[i].doc_id = doc_id])
    ELSE None

\* What .order_by(Document.nivel_jerarquico).all() may return for `rows`: every
\* ordering that ascends in rank; SQL leaves the order of ties unspecified.
OrderByNivel(rows) ==
    {s \in Permutations_(rows) :
        \A i, j \in DOMAIN s :
            i < j => s[i].nivel_jerarquico <= s[j].nivel_jerarquico}

\* Lexicographic order on (nivel_jerarquico, anio).
NivelAnioLeq(a, b) ==
    \/ a.nivel_jerarquico < b.nivel_jerarquico
    \/ a.nivel_jerarquico = b.nivel_jerarquico /\ a.anio <= b.anio

\* What .order_by(Document.nivel_jerarquico, Document.anio).all() may return.
OrderByNivelAnio(rows) ==
    {s \in Permutations_(rows) :
        \A i, j \in DOMAIN s : i < j => NivelAnioLeq(s[i], s[j])}

\* DocumentReader._extract_section: the part of the content under `section`.
ExtractSection(content, section) == content \o " / " \o section

\* DocumentReader.read_document.
ReadDocument(c, doc_id, section) ==
    LET document == QueryFirst(c, doc_id) IN
    IF document = None
    THEN [success |-> FALSE,
          error |-> "Documento '" \o doc_id \o "' no encontrado en la base de datos"]
    ELSE LET row == Get(document) IN
         [success |-> TRUE,
          doc_id |-> doc_id,
          content |-> IF section # None
                      THEN ExtractSection(row.content, Get(section))
                      ELSE row.content,
          metadata |-> [tipo |-> row.tipo,
                        nivel_jerarquico |-> row.nivel_jerarquico,
                        anio |-> row.anio]]

\* One entry of documentos_superiores.
HierarchyEntry(row) ==
    [doc_id |-> row.doc_id, tipo |-> row.tipo, nivel |-> row.nivel_jerarquico]

\* The mutated filter: documents of equal rank count as superior.
IsSuperior_Leq(row, document) == row.nivel_jerarquico <= document.nivel_jerarquico

\* The filter of the superior-documents query.
IsSuperior(row, document) == row.nivel_jerarquico < document.nivel_jerarquico

\* DocumentReader.get_document_hierarchy: the payloads it may return.
GetDocumentHierarchy(c, doc_id) ==
    LET document == QueryFirst(c, doc_id) IN
    IF document = None
    THEN {[success |-> FALSE, error |-> "Documento no encontrado"]}
    ELSE LET doc == Get(document)
             superior == {r \in Range(c) : IsSuperior(r, doc)}
         IN  {[success |-> TRUE,
               documento_actual |-> [doc_id |-> doc.doc_id,
                                     nivel |-> doc.nivel_jerarquico],
               documentos_superiores |->
                   [i \in DOMAIN superior_docs |-> HierarchyEntry(superior_docs[i])]]
                : superior_docs \in OrderByNivel(superior)}

\* One entry of list_documents' result.
ListEntry(row) ==
    [doc_id |-> row.doc_id, tipo |-> row.tipo, nivel |-> row.nivel_jerarquico,
     anio |-> row.anio]

\* DocumentReader.list_documents, with its tipo filter.
ListDocuments(c, tipo) ==
    LET rows == {r \in Range(c) : tipo = None \/ r.tipo = Get(tipo)} IN
    {[success |-> TRUE,
      total |-> Cardinality(rows),
      documents |-> [i \in DOMAIN documents |-> ListEntry(documents[i])]]
        : documents \in OrderByNivelAnio(rows)}

-----------------------------------------------------------------------------
(* DocumentComparer and ContradictionAnalyzer, as the dispatcher sees them *)

\* DocumentComparer.compare_documents: the branch taken and the payload's
\* identifying keys; the comparer's payloads carry no "success" key.
CompareDocuments(doc1_content, doc2_content, doc1_id, doc2_id, comparison_type) ==
    [comparison_type |-> IF comparison_type \in {"terminology", "numeric", "structure"}
                         THEN comparison_type
                         ELSE "full",
     doc1_id |-> doc1_id,
     doc2_id |-> doc2_id,
     compared |-> <<doc1_content, doc2_content>>]

\* ContradictionAnalyzer.detect_contradictions: the keys that depend only on
\* the shape of its arguments, and the arguments the analysis is a function of.
DetectContradictions(target_content, target_metadata, rector_contents, sensitivity) ==
    [success |-> TRUE,
     analysis_summary |-> [total_rectores_checked |-> Len(rector_contents)],
     analysis_of |-> [target_content |-> target_content,
                      target_metadata |-> target_metadata,
                      rector_contents |-> rector_contents,
                      sensitivity |-> sensitivity]]

-----------------------------------------------------------------------------
(* ClaudeOrchestrator._dispatch_tool                                       *)

\* An exception travelling up the call stack.
Raised(message) == [raised |-> message]

IsRaised(r) == HasKey(r, "raised")

\* tool_input.get(key, default)
GetOr(tool_input, key, default) ==
    IF HasKey(tool_input, key) THEN tool_input[key] ELSE default

\* The mutated loop: it breaks at the first identifier that cannot be read.
ReadRectores_StopsAtUnreadable(c, rector_ids) ==
    LET unreadable == {i \in DOMAIN rector_ids :
                          ~ReadDocument(c, rector_ids[i], None).success}
        last == IF unreadable = {}
                THEN Len(rector_ids)
                ELSE (CHOOSE i \in unreadable : \A j \in unreadable : i <= j) - 1
    IN  [i \in 1..last |->
            LET rector == ReadDocument(c, rector_ids[i], None) IN
            [content |-> rector.content, metadata |-> rector.metadata]]

\* The rector-reading loop of the dispatcher and of the fallback path: the
\* (content, metadata) pairs of the identifiers that could be read, in order.
RECURSIVE ReadRectores(_, _)
ReadRectores(c, rector_ids) ==
    IF rector_ids = <<>>
    THEN <<>>
    ELSE LET rector == ReadDocument(c, Head(rector_ids), None) IN
         (IF rector.success
          THEN <<[content |-> rector.content, metadata |-> rector.metadata]>>
          ELSE <<>>) \o ReadRectores(c, Tail(rector_ids))

\* The body of the try block: the payloads or exceptions it may produce.
DispatchBody(c, tool_name, tool_input) ==
    CASE tool_name = "read_document" ->
            IF ~HasKey(tool_input, "doc_id")
            THEN {Raised("'doc_id'")}
            ELSE {ReadDocument(c, tool_input.doc_id,
                               IF HasKey(tool_input, "section")
                               THEN Some(tool_input.section) ELSE None)}
      [] tool_name = "list_documents" ->
            ListDocuments(c, IF HasKey(tool_input, "tipo")
                             THEN Some(tool_input.tipo) ELSE None)
      [] tool_name = "get_document_hierarchy" ->
            IF ~HasKey(tool_input, "doc_id")
            THEN {Raised("'doc_id'")}
            ELSE GetDocumentHierarchy(c, tool_input.doc_id)
      [] tool_name = "compare_documents" ->
            IF ~HasKey(tool_input, "doc_id_1") THEN {Raised("'doc_id_1'")}
            ELSE IF ~HasKey(tool_input, "doc_id_2") THEN {Raised("'doc_id_2'")}
            ELSE LET doc1 == ReadDocument(c, tool_input.doc_id_1, None)
                     doc2 == ReadDocument(c, tool_input.doc_id_2, None)
                 IN  IF ~doc1.success \/ ~doc2.success
                     THEN {[error |-> "No se pudieron leer los documentos"]}
                     ELSE {CompareDocuments(doc1.content, doc2.content,
                                            tool_input.doc_id_1, tool_input.doc_id_2,
                                            GetOr(tool_input, "comparison_type", "full"))}
      [] tool_name = "detect_contradictions" ->
            IF ~HasKey(tool_input, "target_doc_id") THEN {Raised("'target_doc_id'")}
            ELSE LET target_doc == ReadDocument(c, tool_input.target_doc_id, None) IN
                 IF ~target_doc.success
                 THEN {[error |-> "No se pudo leer el documento "
                                     \o tool_input.target_doc_id]}
                 ELSE IF ~HasKey(tool_input, "rector_doc_ids")
                      THEN {Raised("'rector_doc_ids'")}
                 ELSE IF tool_input.rector_doc_ids = None
                      THEN {Raised("'NoneType' object is not iterable")}
                 ELSE {DetectContradictions(
                          target_doc.content, target_doc.metadata,
                          ReadRectores(c, Get(tool_input.rector_doc_ids)),
                          GetOr(tool_input, "sensitivity", "moderate"))}
      [] tool_name = "extract_key_terms" ->
            IF ~HasKey(tool_input, "doc_id") THEN {Raised("'doc_id'")}
            ELSE LET doc == ReadDocument(c, tool_input.doc_id, None) IN
                 IF ~doc.success
                 THEN {[error |-> "No se pudo leer el documento"]}
                 ELSE {[success |-> TRUE,
                        doc_id |-> tool_input.doc_id,
                        key_terms_of |-> doc.content]}
      [] OTHER ->
            {[error |-> "Herramienta '" \o tool_name \o "' no implementada"]}

\* The except clause: an exception becomes an error payload.
CatchException(tool_name, r) ==
    IF IsRaised(r)
    THEN [error |-> "Error ejecutando " \o tool_name \o ": " \o r.raised]
    ELSE r

\* _dispatch_tool without its try/except: the exception leaves the dispatcher.
DispatchTool_NoCatch(c, tool_name, tool_input) ==
    DispatchBody(c, tool_name, tool_input)

\* ClaudeOrchestrator._dispatch_tool: the payloads it may return.
DispatchTool(c, tool_name, tool_input) ==
    {CatchException(tool_name, r) : r \in DispatchBody(c, tool_name, tool_input)}

\* json.dumps(result): the text is represented by the value it encodes.
JsonDumps(result) == [json |-> result]

\* The mutated result: tagged with the operation's name, not with the
\* identifier of the request.
ToolResult_TaggedByName(block, result) ==
    [type |-> "tool_result", tool_use_id |-> block.name, content |-> JsonDumps(result)]

\* One element of tool_results.
ToolResult(block, result) ==
    [type |-> "tool_result", tool_use_id |-> block.id, content |-> JsonDumps(result)]

\* _execute_tools from block i on, with `acc` the results so far: each possible
\* run, as the results, the operations dispatched, and the exception (if any)
\* that left _execute_tools.
RECURSIVE ExecuteToolsFrom(_, _, _, _, _)
ExecuteToolsFrom(c, content, i, acc, names) ==
    IF i > Len(content)
    THEN {[results |-> acc, dispatched |-> names, exception |-> None]}
    ELSE LET block == content[i] IN
         IF block.type # "tool_use"
         THEN ExecuteToolsFrom(c, content, i + 1, acc, names)
         ELSE UNION {
                IF IsRaised(r)
                THEN {[results |-> acc,
                       dispatched |-> Append(names, block.name),
                       exception |-> Some(r.raised)]}
                ELSE ExecuteToolsFrom(c, content, i + 1,
                                      Append(acc, ToolResult(block, r)),
                                      Append(names, block.name))
                : r \in DispatchTool(c, block.name, block.input)}

\* ClaudeOrchestrator._execute_tools
ExecuteTools(c, content) == ExecuteToolsFrom(c, content, 1, <<>>, <<>>)

-----------------------------------------------------------------------------
(* The fallback path: ClaudeOrchestrator._analyze_without_claude           *)

\* The report text, as the parts it is formatted from.
FormatReport(doc_id, rector_ids, analysis) ==
    [documento |-> doc_id, documentos_rectores |-> rector_ids, analysis |-> analysis]

\* The mutated default: the hierarchy is never consulted for the identifiers.
FallbackRectorIds_GivenOnly(rector_ids, hierarchy) ==
    IF rector_ids = None THEN <<>> ELSE Get(rector_ids)

\* if not rector_ids: rector_ids = [doc["doc_id"] for doc in hierarchy[...]]
FallbackRectorIds(rector_ids, hierarchy) ==
    IF ~Truthy(rector_ids)
    THEN [i \in DOMAIN hierarchy.documentos_superiores |->
             hierarchy.documentos_superiores[i].doc_id]
    ELSE Get(rector_ids)

\* The run of the fallback path that obtained `hierarchy` from the reader: the
\* dict returned and the capabilities invoked, in order.
FallbackRun(c, doc_id, rector_ids, hierarchy) ==
    IF ~hierarchy.success
    THEN [outcome |-> [status |-> "error", error |-> hierarchy.error],
          trace |-> <<"get_document_hierarchy">>]
    ELSE
    LET ids == FallbackRectorIds(rector_ids, hierarchy)
        target == ReadDocument(c, doc_id, None)
        rector_contents == ReadRectores(c, ids)
        analysis == DetectContradictions(target.content, target.metadata,
                                         rector_contents, "moderate")
        reads == [i \in 1..Len(ids) |-> "read_document"]
    IN  IF Len(ids) = 0
        THEN [outcome |-> [status |-> "completed",
                           result |-> "No se encontraron documentos rectores para este documento.",
                           iterations |-> 1],
              trace |-> <<"get_document_hierarchy">>]
        ELSE IF ~target.success
        THEN [outcome |-> [status |-> "error", error |-> target.error],
              trace |-> <<"get_document_hierarchy", "read_document">>]
        ELSE [outcome |-> [status |-> "completed",
                           result |-> FormatReport(doc_id, ids, analysis),
                           iterations |-> 1,
                           contradictions_found |->
                               [key |-> "contradictions_found", of |-> analysis.analysis_of],
                           compliance_score |->
                               [key |-> "compliance_score", of |-> analysis.analysis_of]],
              trace |-> <<"get_document_hierarchy", "read_document">> \o reads
                            \o <<"detect_contradictions">>]

\* ClaudeOrchestrator._analyze_without_claude: its possible runs.
AnalyzeWithoutClaude(c, doc_id, rector_ids) ==
    {FallbackRun(c, doc_id, rector_ids, hierarchy) :
        hierarchy \in GetDocumentHierarchy(c, doc_id)}

-----------------------------------------------------------------------------
(* The planner: what client.messages.create may return                     *)

max_iterations == 15

TextBlock(text) == [type |-> "text", text |-> text]

ToolUse(id, name, input) ==
    [type |-> "tool_use", id |-> id, name |-> name, input |-> input]

\* response.usage, when the reply carries it.
Usage == [input_tokens |-> 1200, output_tokens |-> 300]

Reply(stop_reason, content) ==
    [stop_reason |-> stop_reason, content |-> content, usage |-> Some(Usage)]

NoResponse == [stop_reason |-> "none", content |-> <<>>, usage |-> None]

\* The corpus the planner sessions run on: DOC_A and DOC_B share rank 1, and
\* the older of the two has the greater rowid.
LoopCorpus ==
    <<ImportedRow("DOC_A", "LEY", 2024),
      ImportedRow("DOC_B", "LEY", 2023),
      ImportedRow("DOC_C", "DIR", 2024)>>

\* Operation requests with well-formed and malformed inputs.
ReadC == <<"read_document", [doc_id |-> "DOC_C"]>>
ReadGhost == <<"read_document", [doc_id |-> GhostId]>>
ReadNoId == <<"read_document", [section |-> "CAPITULO I"]>>
ListLey == <<"list_documents", [tipo |-> "LEY"]>>
HierarchyC == <<"get_document_hierarchy", [doc_id |-> "DOC_C"]>>
CompareCatalog == <<"compare_documents", [doc1_id |-> "DOC_C", doc2_id |-> "DOC_A"]>>
CompareDispatcher ==
    <<"compare_documents",
      [doc_id_1 |-> "DOC_C", doc_id_2 |-> "DOC_A", comparison_type |-> "numeric"]>>
CompareGhost == <<"compare_documents", [doc_id_1 |-> "DOC_C", doc_id_2 |-> GhostId]>>
DetectC ==
    <<"detect_contradictions",
      [target_doc_id |-> "DOC_C", rector_doc_ids |-> Some(<<"DOC_A", "DOC_B">>)]>>
DetectPartial ==
    <<"detect_contradictions",
      [target_doc_id |-> "DOC_C", rector_doc_ids |-> Some(<<"DOC_A", GhostId>>),
       sensitivity |-> "strict"]>>
DetectGhostTarget ==
    <<"detect_contradictions",
      [target_doc_id |-> GhostId, rector_doc_ids |-> Some(<<"DOC_A">>)]>>
DetectNoRectores == <<"detect_contradictions", [target_doc_id |-> "DOC_C"]>>
DetectNullRectores ==
    <<"detect_contradictions", [target_doc_id |-> "DOC_C", rector_doc_ids |-> None]>>
DetectGhostRectores ==
    <<"detect_contradictions",
      [target_doc_id |-> "DOC_C", rector_doc_ids |-> Some(<<GhostId>>)]>>
TermsA == <<"extract_key_terms", [doc_id |-> "DOC_A"]>>
Unknown == <<"delete_document", [doc_id |-> "DOC_A"]>>

Calls ==
    {ReadC, ReadNoId, ListLey, HierarchyC, CompareCatalog, CompareDispatcher,
     CompareGhost, DetectC, DetectPartial, DetectGhostTarget, DetectNoRectores,
     DetectNullRectores, DetectGhostRectores, TermsA, Unknown}

\* The request identifier of the i-th block of a reply.
ToolUseId(i) == <<"toolu_1", "toolu_2", "toolu_3">>[i]

Block(i, call) == ToolUse(ToolUseId(i), call[1], call[2])

\* The contents of the replies that ask for operations: one request each, a
\* few replies with several blocks, and one with no request at all.
ToolUseContents ==
    {<<Block(1, call)>> : call \in Calls}
        \cup {<<TextBlock("Voy a revisar."), Block(1, Unknown), Block(2, ReadC)>>,
              <<Block(1, ReadNoId), Block(2, DetectC)>>,
              <<Block(1, DetectNullRectores), Block(2, HierarchyC), Block(3, ReadGhost)>>,
              <<TextBlock("Nada que ejecutar.")>>}

FinalContent == <<TextBlock("Reporte final"), TextBlock("Score: 0.9")>>

\* Stop signals other than end_turn and tool_use.
OtherStopReasons == {"max_tokens"}

\* str(e) of the exceptions client.messages.create raises.
TransportErrors == {"Connection error."}

\* The (doc_id, rector_ids) arguments of the analyze_document calls explored
\* on the fallback path.
Requests ==
    {<<"DOC_C", None>>, <<"DOC_C", Some(<<>>)>>, <<"DOC_C", Some(<<"DOC_A">>)>>,
     <<"DOC_C", Some(<<GhostId, "DOC_B">>)>>, <<"DOC_C", Some(<<GhostId>>)>>,
     <<GhostId, None>>}

\* Those explored on the planner path, where the arguments only reach the
\* prompt: identifiers omitted, and identifiers given.
LoopRequests == {<<"DOC_C", None>>, <<"DOC_C", Some(<<"DOC_A">>)>>}

-----------------------------------------------------------------------------
(* ClaudeOrchestrator.analyze_document and _run_tool_use_loop              *)

Terminal == {"COMPLETED", "FAILED", "EXHAUSTED"}

NoOutcome == [status |-> "none"]

\* _build_analysis_prompt: the parts of the prompt that depend on the call.
BuildAnalysisPrompt(doc_id, rector_ids, analysis_type) ==
    [doc_id |-> doc_id,
     analysis_type |-> analysis_type,
     rectores_especificados |-> IF Truthy(rector_ids) THEN rector_ids ELSE None]

\* _extract_text: the text blocks joined by newlines.
RECURSIVE ExtractText(_)
ExtractText(content) ==
    LET texts == SelectSeq(content, LAMBDA b : HasKey(b, "text")) IN
    IF texts = <<>> THEN ""
    ELSE IF Len(texts) = 1 THEN texts[1].text
    ELSE texts[1].text \o "\n" \o ExtractText(Tail(texts))

\* A message of the conversation: its role, and its content named by what it
\* is and the iteration that produced it (the loop never reads content back;
\* the latest reply and results are in response and tool_results).
Message(role, kind, k) == [role |-> role, content |-> [kind |-> kind, iteration |-> k]]

\* The entry appended to tool_use_log for a reply.
LogEntry(k, reply) ==
    [iteration |-> k,
     stop_reason |-> reply.stop_reason,
     input_tokens |-> IF reply.usage # None THEN Get(reply.usage).input_tokens ELSE 0,
     output_tokens |-> IF reply.usage # None THEN Get(reply.usage).output_tokens ELSE 0]

\* The mutated loop guard: one round-trip too many.
LoopCondition_OffByOne(i) == i <= max_iterations

\* while iteration < self.max_iterations
LoopCondition(i) == i < max_iterations

OtherReplies(log) ==
    Cardinality({i \in DOMAIN log : log[i].stop_reason \in OtherStopReasons})

\* The mutated entry point: the loop is entered whether or not a planner is
\* configured.
AnalyzeDocument_NoFallback(doc_id, rector_ids) ==
    /\ pc \in {"IDLE", "COMPLETED", "FAILED", "EXHAUSTED"}
    /\ request' = [doc_id |-> doc_id, rector_ids |-> rector_ids,
                   analysis_type |-> "full"]
    /\ iteration' = 0
    /\ tool_use_log' = <<>>
    /\ response' = [stop_reason |-> "none", content |-> <<>>, usage |-> {}]
    /\ tool_results' = <<>>
    /\ planner_calls' = 0
    /\ messages' = <<[role |-> "user", content |-> [kind |-> "prompt", iteration |-> 0]]>>
    /\ outcome' = [status |-> "none"]
    /\ trace' = <<>>
    /\ pc' = "AWAITING_PLANNER"
    /\ UNCHANGED <<corpus, client, reader_vars, server_vars>>

\* analyze_document(doc_id, rector_ids): the fallback path runs to its end;
\* the planner path builds the conversation and enters the loop.
AnalyzeDocument(doc_id, rector_ids) ==
    /\ pc \in {"IDLE"} \cup Terminal
    /\ request' = [doc_id |-> doc_id, rector_ids |-> rector_ids,
                   analysis_type |-> "full"]
    /\ iteration' = 0
    /\ tool_use_log' = <<>>
    /\ response' = NoResponse
    /\ tool_results' = <<>>
    /\ planner_calls' = 0
    /\ IF ~client
       THEN \E run \in AnalyzeWithoutClaude(corpus, doc_id, rector_ids) :
               /\ outcome' = run.outcome
               /\ trace' = run.trace
               /\ pc' = IF run.outcome.status = "error" THEN "FAILED" ELSE "COMPLETED"
               /\ messages' = <<>>
       ELSE /\ messages' = <<Message("user", "prompt", 0)>>
            /\ outcome' = NoOutcome
            /\ trace' = <<>>
            /\ pc' = "AWAITING_PLANNER"
    /\ UNCHANGED <<corpus, client, reader_vars, server_vars>>

\* The mutated logging: the entry carries the counter as it was before the
\* iteration began.
ReceiveReply_StaleIndex(reply) ==
    /\ pc = "AWAITING_PLANNER"
    /\ LoopCondition(iteration)
    /\ iteration' = iteration + 1
    /\ planner_calls' = planner_calls + 1
    /\ tool_use_log' = Append(tool_use_log, LogEntry(iteration, reply))
    /\ response' = reply
    /\ tool_results' = <<>>
    /\ trace' = <<"messages.create">>
    /\ UNCHANGED <<corpus, client, request, reader_vars, server_vars>>

\* The part of an iteration common to every reply received.
ReceiveReply(reply) ==
    /\ pc = "AWAITING_PLANNER"
    /\ LoopCondition(iteration)
    /\ iteration' = iteration + 1
    /\ planner_calls' = planner_calls + 1
    /\ tool_use_log' = Append(tool_use_log, LogEntry(iteration + 1, reply))
    /\ response' = reply
    /\ tool_results' = <<>>
    /\ trace' = <<"messages.create">>
    /\ UNCHANGED <<corpus, client, request, reader_vars, server_vars>>

\* The planner signals completion.
PlannerCompletes ==
    /\ ReceiveReply(Reply("end_turn", FinalContent))
    /\ outcome' = [status |-> "completed",
                   result |-> ExtractText(FinalContent),
                   iterations |-> iteration',
                   tool_use_log |-> tool_use_log',
                   doc_id |-> request.doc_id]
    /\ pc' = "COMPLETED"
    /\ UNCHANGED messages

\* The mutated request step: the planner's reply is not kept in the
\* conversation.
PlannerRequestsTools_ReplyNotKept(content) ==
    /\ ReceiveReply(Reply("tool_use", content))
    /\ pc' = "DISPATCHING"
    /\ UNCHANGED <<messages, outcome>>

\* The planner asks for operations: its reply joins the conversation.
PlannerRequestsTools(content) ==
    /\ ReceiveReply(Reply("tool_use", content))
    /\ messages' = Append(messages, Message("assistant", "response.content", iteration'))
    /\ pc' = "DISPATCHING"
    /\ UNCHANGED outcome

\* The mutated iteration: the reply joins the conversation whatever its
\* stop signal.
PlannerStalls_KeepsReply(stop_reason) ==
    /\ ReceiveReply(Reply(stop_reason, <<TextBlock("...")>>))
    /\ messages' = Append(messages, Message("assistant", "response.content", iteration'))
    /\ pc' = "AWAITING_PLANNER"
    /\ UNCHANGED outcome

\* A reply with any other stop signal: neither branch of the loop body is
\* taken and the iteration ends with nothing done.
PlannerStalls(stop_reason) ==
    /\ ReceiveReply(Reply(stop_reason, <<TextBlock("...")>>))
    /\ pc' = "AWAITING_PLANNER"
    /\ UNCHANGED <<messages, outcome>>

\* Such a reply, in the sessions where they are few.
PlannerRepliesOther(stop_reason) ==
    /\ OtherReplies(tool_use_log) < MaxOther
    /\ PlannerStalls(stop_reason)

\* The mutated except clause: it reports the iteration count of the last
\* successful round-trip.
PlannerFails_StaleIteration(error) ==
    /\ pc = "AWAITING_PLANNER"
    /\ LoopCondition(iteration)
    /\ iteration' = iteration + 1
    /\ planner_calls' = planner_calls + 1
    /\ outcome' = [status |-> "error",
                   error |-> error,
                   iterations |-> iteration,
                   tool_use_log |-> tool_use_log]
    /\ pc' = "FAILED"
    /\ response' = NoResponse
    /\ tool_results' = <<>>
    /\ trace' = <<"messages.create">>
    /\ UNCHANGED <<corpus, client, request, tool_use_log, messages, reader_vars, server_vars>>

\* client.messages.create raises: the except clause returns the error outcome.
PlannerFails(error) ==
    /\ pc = "AWAITING_PLANNER"
    /\ LoopCondition(iteration)
    /\ iteration' = iteration + 1
    /\ planner_calls' = planner_calls + 1
    /\ outcome' = [status |-> "error",
                   error |-> error,
                   iterations |-> iteration',
                   tool_use_log |-> tool_use_log]
    /\ pc' = "FAILED"
    /\ response' = NoResponse
    /\ tool_results' = <<>>
    /\ trace' = <<"messages.create">>
    /\ UNCHANGED <<corpus, client, request, tool_use_log, messages, reader_vars, server_vars>>

\* _execute_tools on the reply, then the results join the conversation; an
\* exception leaving _execute_tools reaches the loop's except clause.
DispatchTools ==
    /\ pc = "DISPATCHING"
    /\ \E run \in ExecuteTools(corpus, response.content) :
          /\ trace' = run.dispatched
          /\ IF run.exception = None
             THEN /\ tool_results' = run.results
                  /\ messages' = Append(messages, Message("user", "tool_results", iteration))
                  /\ pc' = "AWAITING_PLANNER"
                  /\ UNCHANGED outcome
             ELSE /\ outcome' = [status |-> "error",
                                 error |-> Get(run.exception),
                                 iterations |-> iteration,
                                 tool_use_log |-> tool_use_log]
                  /\ pc' = "FAILED"
                  /\ UNCHANGED <<tool_results, messages>>
    /\ UNCHANGED <<corpus, client, request, iteration, tool_use_log, response,
                   planner_calls, reader_vars, server_vars>>

\* The mutated exit: the accumulated log is not returned.
LoopExits_DropsLog ==
    /\ pc = "AWAITING_PLANNER"
    /\ ~LoopCondition(iteration)
    /\ outcome' = [status |-> "max_iterations_reached",
                   iterations |-> iteration,
                   tool_use_log |-> <<>>]
    /\ pc' = "EXHAUSTED"
    /\ response' = NoResponse
    /\ tool_results' = <<>>
    /\ trace' = <<>>
    /\ UNCHANGED <<corpus, client, request, iteration, tool_use_log, messages,
                   planner_calls, reader_vars, server_vars>>

\* The loop guard fails: the iteration budget is spent.
LoopExits ==
    /\ pc = "AWAITING_PLANNER"
    /\ ~LoopCondition(iteration)
    /\ outcome' = [status |-> "max_iterations_reached",
                   iterations |-> iteration,
                   tool_use_log |-> tool_use_log]
    /\ pc' = "EXHAUSTED"
    /\ response' = NoResponse
    /\ tool_results' = <<>>
    /\ trace' = <<>>
    /\ UNCHANGED <<corpus, client, request, iteration, tool_use_log, messages,
                   planner_calls, reader_vars, server_vars>>

\* The steps of a running loop.
LoopStep ==
    \/ PlannerCompletes
    \/ \E content \in ToolUseContents : PlannerRequestsTools(content)
    \/ \E stop_reason \in OtherStopReasons : PlannerRepliesOther(stop_reason)
    \/ \E error \in TransportErrors : PlannerFails(error)
    \/ DispatchTools
    \/ LoopExits

-----------------------------------------------------------------------------
(* Direct calls of the reader                                              *)

NoPayload == [none |-> TRUE]

MaxSessions == 2

SessionIds == 1..MaxSessions

\* A request that has not arrived.
NoSession == [pc |-> "idle", doc_id |-> "-", iteration |-> 0, tool_use_log |-> 0, db |-> 0]

CallGetDocumentHierarchy(doc_id) ==
    /\ \E r \in GetDocumentHierarchy(corpus, doc_id) : reader_result' = r
    /\ reader_call' = [op |-> "get_document_hierarchy", doc_id |-> doc_id]
    /\ UNCHANGED <<corpus, client, session_vars, server_vars>>

CallReadDocument(doc_id) ==
    /\ reader_result' = ReadDocument(corpus, doc_id, None)
    /\ reader_call' = [op |-> "read_document", doc_id |-> doc_id]
    /\ UNCHANGED <<corpus, client, session_vars, server_vars>>

CallListDocuments ==
    /\ \E r \in ListDocuments(corpus, None) : reader_result' = r
    /\ reader_call' = [op |-> "list_documents", doc_id |-> "-"]
    /\ UNCHANGED <<corpus, client, session_vars, server_vars>>

-----------------------------------------------------------------------------
(* Specifications                                                          *)

IdleSession ==
    /\ pc = "IDLE"
    /\ request = [doc_id |-> "-", rector_ids |-> None, analysis_type |-> "-"]
    /\ iteration = 0
    /\ tool_use_log = <<>>
    /\ messages = <<>>
    /\ response = NoResponse
    /\ tool_results = <<>>
    /\ outcome = NoOutcome
    /\ planner_calls = 0
    /\ trace = <<>>
    /\ reader_call = [op |-> "none", doc_id |-> "-"]
    /\ reader_result = NoPayload

\* The process after import: routes.py has constructed the one
\* orchestrator, whose reader has opened its database session (handle 1);
\* no request has been served.
IdleProcess ==
    /\ db_handles = <<[owner |-> "orchestrator.reader", in_transaction |-> FALSE]>>
    /\ sessions = [s \in SessionIds |-> NoSession]

IdleServers ==
    /\ analyzer_call = [op |-> "none"]
    /\ analyzer_result = NoPayload
    /\ float_ties = FALSE
    /\ comparer_call = [op |-> "none"]
    /\ comparer_result = NoPayload
    /\ IdleProcess

\* The orchestrator after construction: with a planner over LoopCorpus, or
\* without one over any corpus.
Init ==
    /\ client \in BOOLEAN
    /\ corpus \in (IF client THEN {LoopCorpus} ELSE Corpora)
    /\ IdleSession
    /\ IdleServers

Next ==
    \/ \E r \in (IF client THEN LoopRequests ELSE Requests) :
          AnalyzeDocument(r[1], r[2])
    \/ PlannerCompletes
    \/ \E content \in ToolUseContents : PlannerRequestsTools(content)
    \/ \E stop_reason \in OtherStopReasons : PlannerRepliesOther(stop_reason)
    \/ \E error \in TransportErrors : PlannerFails(error)
    \/ DispatchTools
    \/ LoopExits

Spec == Init /\ [][Next]_vars

\* The orchestrator constructed with a planner.
InitLoop ==
    /\ client = TRUE
    /\ corpus = LoopCorpus
    /\ IdleSession
    /\ IdleServers

\* The planner sessions, where each planner call returns or fails and the
\* loop's own steps are taken.
FairSpec == InitLoop /\ [][Next]_vars /\ WF_vars(LoopStep)

\* The reader over every corpus.
InitReader ==
    /\ client = FALSE
    /\ corpus \in Corpora
    /\ IdleSession
    /\ IdleServers

NextReader ==
    \/ \E doc_id \in DocIds(corpus) \cup {GhostId} : CallGetDocumentHierarchy(doc_id)
    \/ \E doc_id \in DocIds(corpus) \cup {GhostId} : CallReadDocument(doc_id)
    \/ CallListDocuments

SpecReader == InitReader /\ [][NextReader]_vars

-----------------------------------------------------------------------------
(* Properties of the tool-dispatch loop                                    *)

Running == pc \in {"AWAITING_PLANNER", "DISPATCHING"}

\* A step that starts a new analysis session.
SessionStarts ==
    /\ pc \in {"IDLE"} \cup Terminal
    /\ iteration' = 0
    /\ planner_calls' = 0
    /\ tool_use_log' = <<>>

\* A step in which the planner was called and no reply was received.
PlannerCallFailed ==
    /\ planner_calls' = planner_calls + 1
    /\ tool_use_log' = tool_use_log

\* C1: the loop never makes more than 15 planner round-trips: the iteration
\* counter and the number of planner calls never exceed 15, and no step calls
\* the planner once the counter has reached 15.
C1_IterationCeiling ==
    /\ [](iteration <= 15 /\ planner_calls <= 15)
    /\ [][planner_calls' = planner_calls + 1 => iteration < 15]_vars

\* The ceiling is reached: fifteen round-trips made, the loop at its guard.
C1_Witness == pc = "AWAITING_PLANNER" /\ iteration = 15 /\ planner_calls = 15

NoCompletionSignal ==
    \A i \in DOMAIN tool_use_log : tool_use_log[i].stop_reason # "end_turn"

NoCallFailed == planner_calls = Len(tool_use_log)

\* C2: with every planner call returning or failing, a running session
\* eventually reaches a terminal state; it has an outcome exactly when it is
\* in one, and a terminal state is left only by a new session. A session
\* with no completion signal and no failed call ends EXHAUSTED with status
\* max_iterations_reached, after exactly 15 round-trips, returning the log.
C2_Termination ==
    /\ Running ~> (pc \in Terminal)
    /\ [](pc \in Terminal <=> outcome.status # "none")
    /\ [][(pc \in Terminal /\ pc' # pc) => SessionStarts]_vars
    /\ [](client /\ pc \in Terminal /\ NoCompletionSignal /\ NoCallFailed
            => pc = "EXHAUSTED")
    /\ [](pc = "EXHAUSTED"
            => /\ outcome.status = "max_iterations_reached"
               /\ outcome.iterations = 15
               /\ planner_calls = 15
               /\ Len(tool_use_log) = 15
               /\ outcome.tool_use_log = tool_use_log)

\* A session exhausted by replies none of which completes it.
C2_Witness ==
    /\ pc = "EXHAUSTED"
    /\ NoCompletionSignal
    /\ NoCallFailed
    /\ \E i \in DOMAIN tool_use_log : tool_use_log[i].stop_reason = "tool_use"

\* The operation names _dispatch_tool has a branch for.
DispatchedNames ==
    {"read_document", "list_documents", "get_document_hierarchy",
     "compare_documents", "detect_contradictions", "extract_key_terms"}

\* The fields _dispatch_tool subscripts tool_input with, per operation.
SubscriptedFields(name) ==
    CASE name = "read_document" -> {"doc_id"}
      [] name = "get_document_hierarchy" -> {"doc_id"}
      [] name = "compare_documents" -> {"doc_id_1", "doc_id_2"}
      [] name = "detect_contradictions" -> {"target_doc_id", "rector_doc_ids"}
      [] name = "extract_key_terms" -> {"doc_id"}
      [] OTHER -> {}

UnknownOperation(block) == block.name \notin DispatchedNames

MissingField(block) ==
    \E f \in SubscriptedFields(block.name) : ~HasKey(block.input, f)

\* The operation raises: it iterates over a null list of identifiers.
RaisingOperation(block) ==
    /\ block.name = "detect_contradictions"
    /\ HasKey(block.input, "rector_doc_ids")
    /\ block.input.rector_doc_ids = None

FailingRequest(block) ==
    UnknownOperation(block) \/ MissingField(block) \/ RaisingOperation(block)

IsErrorPayload(p) == HasKey(p, "error") /\ (HasKey(p, "success") => ~p.success)

\* The operation requests of a reply, in order.
ToolUseBlocks(content) == SelectSeq(content, LAMBDA b : b.type = "tool_use")

\* The latest step dispatched the operations of the latest reply.
JustDispatched ==
    /\ pc # "DISPATCHING"
    /\ response.stop_reason = "tool_use"

\* C3: no failing operation ends the loop. A dispatch step always returns to
\* AWAITING_PLANNER; after it the results are the latest message, a user
\* message, and every request with an unknown name, a missing field or a
\* raising operation is answered by an error payload under its own request
\* identifier.
C3_OperationFailuresRecovered ==
    /\ [][pc = "DISPATCHING" /\ pc' # pc
            => pc' = "AWAITING_PLANNER" /\ outcome' = outcome]_vars
    /\ [](JustDispatched =>
            LET blocks == ToolUseBlocks(response.content) IN
            /\ pc = "AWAITING_PLANNER"
            /\ messages[Len(messages)] = Message("user", "tool_results", iteration)
            /\ Len(tool_results) = Len(blocks)
            /\ \A i \in DOMAIN blocks :
                  /\ tool_results[i].tool_use_id = blocks[i].id
                  /\ FailingRequest(blocks[i])
                        => IsErrorPayload(tool_results[i].content.json))

\* A reply whose requests fail in all three ways has been dispatched.
C3_Witness ==
    /\ JustDispatched
    /\ pc = "AWAITING_PLANNER"
    /\ \E i \in DOMAIN tool_results :
          /\ UnknownOperation(ToolUseBlocks(response.content)[i])
          /\ IsErrorPayload(tool_results[i].content.json)
    /\ iteration >= 2

\* Dispatches that recovered from a missing field and from a raising operation.
C3_WitnessRaising ==
    /\ JustDispatched
    /\ \E i \in DOMAIN tool_results :
          /\ RaisingOperation(ToolUseBlocks(response.content)[i])
          /\ IsErrorPayload(tool_results[i].content.json)
    /\ Len(tool_results) = 3

\* C4: a planner call that fails in iteration k ends the session FAILED at
\* once: the outcome has status error, the failure reason, iterations = k and
\* the log of iterations 1..k-1, and no planner call follows in that session.
C4_TransportFailure ==
    /\ [][pc = "AWAITING_PLANNER" /\ PlannerCallFailed
            => /\ pc' = "FAILED"
               /\ outcome'.status = "error"
               /\ outcome'.error \in TransportErrors
               /\ outcome'.iterations = iteration + 1
               /\ outcome'.tool_use_log = tool_use_log
               /\ Len(tool_use_log) = iteration
               /\ \A i \in DOMAIN tool_use_log : tool_use_log[i].iteration = i]_vars
    /\ [][pc = "FAILED" /\ ~SessionStarts => planner_calls' = planner_calls]_vars
    /\ [](client /\ pc = "FAILED" => outcome.iterations = planner_calls)

\* A failure in the third iteration, after two replies.
C4_Witness ==
    /\ client
    /\ pc = "FAILED"
    /\ outcome.iterations = 3
    /\ Len(outcome.tool_use_log) = 2

-----------------------------------------------------------------------------
(* Properties of the outcomes and of the dispatcher's payloads             *)

\* C5: every terminal outcome of analyze_document, on either path, includes
\* the iteration count and the accumulated operation log.
C5_OutcomeHasCountAndLog ==
    pc \in Terminal
        => HasKey(outcome, "iterations") /\ HasKey(outcome, "tool_use_log")

\* On the planner path alone every terminal outcome has both.
C5_PlannerPathOnly ==
    client /\ pc \in Terminal
        => /\ HasKey(outcome, "iterations") /\ HasKey(outcome, "tool_use_log")
           /\ outcome.iterations = iteration
           /\ outcome.tool_use_log = tool_use_log

\* The payloads the latest dispatch returned.
LatestPayloads == {tool_results[i].content.json : i \in DOMAIN tool_results}

\* C6: every payload the dispatcher returns carries a success flag, and a
\* payload of an operation that did not succeed has success = false together
\* with an error string.
C6_StructuredPayloads ==
    \A p \in LatestPayloads :
        /\ HasKey(p, "success")
        /\ ~p.success => HasKey(p, "error")
        /\ HasKey(p, "error") => ~p.success

\* What does hold of the dispatcher: it never raises to _execute_tools.
C6_NeverRaises ==
    \A content \in ToolUseContents :
        \A run \in ExecuteTools(corpus, content) : run.exception = None

-----------------------------------------------------------------------------
(* Properties of the fallback path                                         *)

\* The number of times `name` occurs in a trace.
Occurrences(t, name) == Cardinality({i \in DOMAIN t : t[i] = name})

\* The capabilities of one pass, in the order the pass invokes them.
IsSinglePass(t) ==
    /\ Len(t) >= 1
    /\ t[1] = "get_document_hierarchy"
    /\ Len(t) >= 2 => t[2] = "read_document"
    /\ \A i \in DOMAIN t :
          /\ t[i] \in {"get_document_hierarchy", "read_document", "detect_contradictions"}
          /\ t[i] = "get_document_hierarchy" => i = 1
          /\ t[i] = "detect_contradictions" => i = Len(t) /\ i >= 4
    /\ Occurrences(t, "detect_contradictions") <= 1

\* C7: with no planner configured, analyze_document never calls the planner
\* and never iterates: each call is one step that ends in a terminal state
\* with an outcome, having made one pass with at most one detection.
C7_FallbackSinglePass ==
    /\ [](~client => /\ planner_calls = 0
                     /\ iteration = 0
                     /\ messages = <<>>
                     /\ tool_use_log = <<>>
                     /\ pc \in {"IDLE", "COMPLETED", "FAILED"})
    /\ [](~client /\ pc # "IDLE"
            => /\ outcome.status \in {"completed", "error"}
               /\ pc = "COMPLETED" <=> outcome.status = "completed"
               /\ IsSinglePass(trace)
               /\ Occurrences(trace, "messages.create") = 0)
    /\ [][~client /\ request' # request => pc' \in {"COMPLETED", "FAILED"}]_vars

\* A fallback pass that read two governing documents and ran the detection.
C7_Witness ==
    /\ ~client
    /\ pc = "COMPLETED"
    /\ Len(trace) = 5
    /\ trace[5] = "detect_contradictions"

-----------------------------------------------------------------------------
(* Properties of the governing set                                         *)

\* The contents of the documents the Hierarchy Resolver gives for `doc_id`.
ResolverContents(c, doc_id) ==
    LET document == QueryFirst(c, doc_id) IN
    IF document = None THEN {}
    ELSE {r.content : r \in {x \in Range(c) : IsSuperior(x, Get(document))}}

\* The contents a detection was run against.
CheckedContents(analysis) ==
    {analysis.analysis_of.rector_contents[i].content :
        i \in DOMAIN analysis.analysis_of.rector_contents}

\* The session was asked for with rector_ids omitted or empty.
IdsOmitted == ~Truthy(request.rector_ids)

\* The fallback pass ran a detection.
FallbackDetected == ~client /\ pc = "COMPLETED" /\ HasKey(outcome, "contradictions_found")

\* The detections of the latest dispatch, as (request, payload) pairs.
LatestDetections ==
    IF JustDispatched /\ pc = "AWAITING_PLANNER"
    THEN {<<ToolUseBlocks(response.content)[i], tool_results[i].content.json>> :
            i \in {j \in DOMAIN tool_results :
                     HasKey(tool_results[j].content.json, "analysis_of")}}
    ELSE {}

\* C8 as stated: with rector_ids omitted or empty, every detection the session
\* runs on its target, on the fallback path and on the planner path, checks it
\* against exactly the documents the Hierarchy Resolver gives for it.
C8_GoverningSetIsResolvers ==
    IdsOmitted =>
        /\ FallbackDetected =>
              CheckedContents(outcome.result.analysis)
                  = ResolverContents(corpus, request.doc_id)
        /\ \A d \in LatestDetections :
              d[1].input.target_doc_id = request.doc_id
                  => CheckedContents(d[2]) = ResolverContents(corpus, request.doc_id)

\* C8 amended: on the fallback path with rector_ids omitted or empty, the
\* identifiers used are the Hierarchy Resolver's, in its order, the detection
\* runs against exactly their documents, and no detection runs exactly when
\* there are none. On the planner path each detection runs against the
\* readable documents among the identifiers the planner's request names.
C8_GoverningSetFallbackOnly ==
    /\ ~client /\ pc = "COMPLETED" /\ IdsOmitted =>
          /\ FallbackDetected <=> ResolverContents(corpus, request.doc_id) # {}
          /\ FallbackDetected =>
                /\ \E h \in GetDocumentHierarchy(corpus, request.doc_id) :
                      outcome.result.documentos_rectores
                          = [i \in DOMAIN h.documentos_superiores |->
                                h.documentos_superiores[i].doc_id]
                /\ CheckedContents(outcome.result.analysis)
                      = ResolverContents(corpus, request.doc_id)
    /\ \A d \in LatestDetections :
          CheckedContents(d[2])
              = {r.content : r \in {x \in Range(corpus) :
                    x.doc_id \in Range(Get(d[1].input.rector_doc_ids))}}

\* A fallback detection over a two-document governing set derived from the
\* hierarchy.
C8_Witness ==
    /\ FallbackDetected
    /\ IdsOmitted
    /\ Cardinality(ResolverContents(corpus, request.doc_id)) = 2

-----------------------------------------------------------------------------
(* Properties of the hierarchy resolver                                    *)

HierarchyCalled == reader_call.op = "get_document_hierarchy"

\* The row of the corpus with identifier `doc_id`.
RowOf(doc_id) == Get(QueryFirst(corpus, doc_id))

\* C9: get_document_hierarchy returns exactly the documents of rank strictly
\* less than the target's, ordered by ascending rank and then by year (the
\* secondary order of list_documents); for a target not in the corpus it
\* returns the not-found error and no documents.
C9_HierarchyExactAndOrdered ==
    HierarchyCalled =>
        IF QueryFirst(corpus, reader_call.doc_id) = None
        THEN /\ ~reader_result.success
             /\ reader_result.error = "Documento no encontrado"
             /\ ~HasKey(reader_result, "documentos_superiores")
        ELSE LET target == RowOf(reader_call.doc_id)
                 superiores == reader_result.documentos_superiores
             IN  /\ reader_result.success
                 /\ {superiores[i].doc_id : i \in DOMAIN superiores}
                       = {r.doc_id : r \in {x \in Range(corpus) :
                             x.nivel_jerarquico < target.nivel_jerarquico}}
                 /\ \A i, j \in DOMAIN superiores : i # j => superiores[i] # superiores[j]
                 /\ \A i, j \in DOMAIN superiores :
                       i < j => NivelAnioLeq(RowOf(superiores[i].doc_id),
                                             RowOf(superiores[j].doc_id))

\* What does hold: the same with the order by rank alone.
C9_ByRankOnly ==
    HierarchyCalled =>
        IF QueryFirst(corpus, reader_call.doc_id) = None
        THEN /\ ~reader_result.success
             /\ reader_result.error = "Documento no encontrado"
             /\ ~HasKey(reader_result, "documentos_superiores")
        ELSE LET target == RowOf(reader_call.doc_id)
                 superiores == reader_result.documentos_superiores
             IN  /\ reader_result.success
                 /\ {superiores[i].doc_id : i \in DOMAIN superiores}
                       = {r.doc_id : r \in {x \in Range(corpus) :
                             x.nivel_jerarquico < target.nivel_jerarquico}}
                 /\ \A i, j \in DOMAIN superiores : i # j => superiores[i] # superiores[j]
                 /\ \A i, j \in DOMAIN superiores :
                       i < j => superiores[i].nivel <= superiores[j].nivel

\* C10: get_document_hierarchy on a document of rank 1 succeeds and returns
\* no superior documents, whatever else the corpus holds.
C10_RankOneHasNoSuperiors ==
    /\ HierarchyCalled
    /\ QueryFirst(corpus, reader_call.doc_id) # None
    /\ RowOf(reader_call.doc_id).nivel_jerarquico = 1
    => /\ reader_result.success
       /\ reader_result.documentos_superiores = <<>>

\* The hierarchy of a rank-1 document was asked for in a corpus holding
\* another rank-1 document and a document of lower standing.
C10_Witness ==
    /\ HierarchyCalled
    /\ reader_result.success
    /\ reader_result.documento_actual.nivel = 1
    /\ \E r \in Range(corpus) :
          r.doc_id # reader_call.doc_id /\ r.nivel_jerarquico = 1
    /\ \E r \in Range(corpus) : r.nivel_jerarquico > 1

-----------------------------------------------------------------------------
(* ContradictionAnalyzer: texts and patterns                               *)

\* A text is a sequence of characters; positions count from 1 here and from 0
\* in the source.
IsDigit(c) == c \in {"0", "1", "2", "3", "4", "5", "6", "7", "8", "9"}

\* \s
IsSpace(c) == c \in {" ", "\n", "\t"}

UpperChars ==
    <<"A", "B", "C", "D", "E", "F", "G", "H", "I", "J", "K", "L", "M", "N", "O",
      "P", "Q", "R", "S", "T", "U", "V", "W", "X", "Y", "Z",
      "Á", "É", "Í", "Ó", "Ú", "Ñ">>

LowerChars ==
    <<"a", "b", "c", "d", "e", "f", "g", "h", "i", "j", "k", "l", "m", "n", "o",
      "p", "q", "r", "s", "t", "u", "v", "w", "x", "y", "z",
      "á", "é", "í", "ó", "ú", "ñ">>

UpperSet == {UpperChars[k] : k \in DOMAIN UpperChars}

\* str.lower() of one character; also the case folding of re.IGNORECASE.
Lower(c) ==
    IF c \in UpperSet
    THEN LowerChars[CHOOSE k \in DOMAIN UpperChars : UpperChars[k] = c]
    ELSE c

\* str.lower()
LowerStr(s) == [k \in DOMAIN s |-> Lower(s[k])]

\* The literal `word`, given in lower case, matches `text` at position i,
\* ignoring case.
MatchesAt(text, i, word) ==
    /\ i >= 1
    /\ i + Len(word) - 1 <= Len(text)
    /\ \A k \in 1..Len(word) : Lower(text[i + k - 1]) = word[k]

\* `needle in haystack` for strings.
Contains(haystack, needle) ==
    \E i \in 1..(Len(haystack) + 1) :
        /\ i + Len(needle) - 1 <= Len(haystack)
        /\ \A k \in DOMAIN needle : haystack[i + k - 1] = needle[k]

\* The position after the digits that start at position i.
RECURSIVE DigitsEnd(_, _)
DigitsEnd(text, i) ==
    IF i <= Len(text) /\ IsDigit(text[i]) THEN DigitsEnd(text, i + 1) ELSE i

\* The position after the whitespace that starts at position i.
RECURSIVE SpacesEnd(_, _)
SpacesEnd(text, i) ==
    IF i <= Len(text) /\ IsSpace(text[i]) THEN SpacesEnd(text, i + 1) ELSE i

\* (?:,\d{3})* from position i: the position after the last group.
RECURSIVE ThousandsEnd(_, _)
ThousandsEnd(text, i) ==
    IF /\ i + 3 <= Len(text)
       /\ text[i] = ","
       /\ IsDigit(text[i + 1]) /\ IsDigit(text[i + 2]) /\ IsDigit(text[i + 3])
    THEN ThousandsEnd(text, i + 4)
    ELSE i

\* (?:\.\d{2})? from position i.
CentsEnd(text, i) ==
    IF /\ i + 2 <= Len(text)
       /\ text[i] = "."
       /\ IsDigit(text[i + 1]) /\ IsDigit(text[i + 2])
    THEN i + 3
    ELSE i

\* \d+(?:,\d{3})*(?:\.\d{2})? from position i: the position after the match,
\* or i when there is none.
AmountEnd(text, i) ==
    IF DigitsEnd(text, i) = i THEN i
    ELSE CentsEnd(text, ThousandsEnd(text, DigitsEnd(text, i)))

\* \d+(?:\.\d+)? from position i.
DecimalEnd(text, i) ==
    LET j == DigitsEnd(text, i) IN
    IF j = i THEN i
    ELSE IF j <= Len(text) /\ text[j] = "." /\ DigitsEnd(text, j + 1) > j + 1
         THEN DigitsEnd(text, j + 1)
         ELSE j

\* A match: where it starts, the position after it, and group 1.
Match(start, end, value) == [start |-> start, end |-> end, value |-> value]

\* (\d+)\s*<unit>s? at position i, with `unit` the unit less its optional
\* last letter and `last` that letter: None or the match.
PlazoMatch(text, i, unit, last) ==
    LET j == DigitsEnd(text, i)
        k == SpacesEnd(text, j)
    IN  IF j > i /\ MatchesAt(text, k, unit)
        THEN LET e == k + Len(unit) IN
             Some(Match(i, IF MatchesAt(text, e, last) THEN e + 1 ELSE e,
                        SubSeq(text, i, j - 1)))
        ELSE None

\* <prefix>\s*(\d+(?:,\d{3})*(?:\.\d{2})?) at position i, the prefix matched
\* up to position p.
MontoMatch(text, i, p) ==
    LET j == SpacesEnd(text, p)
        e == AmountEnd(text, j)
    IN  IF e > j THEN Some(Match(i, e, SubSeq(text, j, e - 1))) ELSE None

\* (\d+(?:\.\d+)?)\s*% at position i. When the fraction is present the
\* attempt without it stops at the point, so there is nothing to retry.
PorcentajeMatch(text, i) ==
    LET j == DecimalEnd(text, i)
        k == SpacesEnd(text, j)
    IN  IF j > i /\ k <= Len(text) /\ text[k] = "%"
        THEN Some(Match(i, k + 1, SubSeq(text, i, j - 1)))
        ELSE None

\* (w1|w2|...) at position i: the first alternative that matches.
AlternativesMatch(text, i, words) ==
    LET hits == {k \in DOMAIN words : MatchesAt(text, i, words[k])} IN
    IF hits = {} THEN None
    ELSE LET k == CHOOSE h \in hits : \A g \in hits : h <= g IN
         Some(Match(i, i + Len(words[k]), SubSeq(text, i, i + Len(words[k]) - 1)))

\* (debe|deberá|obligatorio|requerido|necesario|imperativo)
ObligacionWords ==
    <<<<"d", "e", "b", "e">>,
      <<"d", "e", "b", "e", "r", "á">>,
      <<"o", "b", "l", "i", "g", "a", "t", "o", "r", "i", "o">>,
      <<"r", "e", "q", "u", "e", "r", "i", "d", "o">>,
      <<"n", "e", "c", "e", "s", "a", "r", "i", "o">>,
      <<"i", "m", "p", "e", "r", "a", "t", "i", "v", "o">>>>

\* (no debe|no deberá|prohibido|vedado|impedido)
ProhibicionWords ==
    <<<<"n", "o", " ", "d", "e", "b", "e">>,
      <<"n", "o", " ", "d", "e", "b", "e", "r", "á">>,
      <<"p", "r", "o", "h", "i", "b", "i", "d", "o">>,
      <<"v", "e", "d", "a", "d", "o">>,
      <<"i", "m", "p", "e", "d", "i", "d", "o">>>>

\* (puede|podrá|opcional|facultativo|discrecional)
OpcionWords ==
    <<<<"p", "u", "e", "d", "e">>,
      <<"p", "o", "d", "r", "á">>,
      <<"o", "p", "c", "i", "o", "n", "a", "l">>,
      <<"f", "a", "c", "u", "l", "t", "a", "t", "i", "v", "o">>,
      <<"d", "i", "s", "c", "r", "e", "c", "i", "o", "n", "a", "l">>>>

\* (autoriza|aprueba|permite|habilita)
AutorizaWords ==
    <<<<"a", "u", "t", "o", "r", "i", "z", "a">>,
      <<"a", "p", "r", "u", "e", "b", "a">>,
      <<"p", "e", "r", "m", "i", "t", "e">>,
      <<"h", "a", "b", "i", "l", "i", "t", "a">>>>

\* (deniega|rechaza|impide|prohíbe)
DeniegaWords ==
    <<<<"d", "e", "n", "i", "e", "g", "a">>,
      <<"r", "e", "c", "h", "a", "z", "a">>,
      <<"i", "m", "p", "i", "d", "e">>,
      <<"p", "r", "o", "h", "í", "b", "e">>>>

\* The keys of contradiction_patterns, in the order of the dict.
PatternTypes ==
    <<"plazo_dias", "plazo_meses", "plazo_años",
      "monto_soles", "monto_dolares", "porcentaje",
      "obligacion", "prohibicion", "opcion",
      "autoriza", "deniega">>

\* contradiction_patterns[pattern_type] tried at position i of the text.
PatternMatch(pattern_type, text, i) ==
    CASE pattern_type = "plazo_dias" -> PlazoMatch(text, i, <<"d", "í", "a">>, <<"s">>)
      [] pattern_type = "plazo_meses" -> PlazoMatch(text, i, <<"m", "e", "s", "e">>, <<"s">>)
      [] pattern_type = "plazo_años" -> PlazoMatch(text, i, <<"a", "ñ", "o">>, <<"s">>)
      [] pattern_type = "monto_soles" ->
            IF MatchesAt(text, i, <<"s", "/">>)
            THEN MontoMatch(text, i, IF MatchesAt(text, i + 2, <<".">>)
                                     THEN i + 3 ELSE i + 2)
            ELSE None
      [] pattern_type = "monto_dolares" ->
            IF MatchesAt(text, i, <<"$">>) THEN MontoMatch(text, i, i + 1) ELSE None
      [] pattern_type = "porcentaje" -> PorcentajeMatch(text, i)
      [] pattern_type = "obligacion" -> AlternativesMatch(text, i, ObligacionWords)
      [] pattern_type = "prohibicion" -> AlternativesMatch(text, i, ProhibicionWords)
      [] pattern_type = "opcion" -> AlternativesMatch(text, i, OpcionWords)
      [] pattern_type = "autoriza" -> AlternativesMatch(text, i, AutorizaWords)
      [] pattern_type = "deniega" -> AlternativesMatch(text, i, DeniegaWords)

RECURSIVE FindIter(_, _, _)

\* The first position from i on where the pattern matches, known to be at
\* most `last`.
FirstStart(pattern_type, text, i, last) ==
    CHOOSE j \in i..last :
        /\ PatternMatch(pattern_type, text, j) # None
        /\ \A h \in i..(j - 1) : PatternMatch(pattern_type, text, h) = None

\* The match m, then the matches that follow it.
NextMatches(pattern_type, text, m) ==
    <<[value |-> m.value, position |-> m.start - 1]>> \o FindIter(pattern_type, text, m.end)

\* re.finditer(pattern, content, re.IGNORECASE) from position i on: the
\* values list of _extract_data (value and 0-based position; the context
\* string is left out).
FindIter(pattern_type, text, i) ==
    IF \A j \in i..Len(text) : PatternMatch(pattern_type, text, j) = None THEN <<>>
    ELSE NextMatches(pattern_type, text,
             Get(PatternMatch(pattern_type, text,
                     FirstStart(pattern_type, text, i, Len(text)))))

\* data: the pattern types with values, each with its values list.
DataOf(values) ==
    [pattern_type \in {PatternTypes[k] : k \in {h \in DOMAIN values : values[h] # <<>>}} |->
        values[CHOOSE k \in DOMAIN values : PatternTypes[k] = pattern_type]]

\* ContradictionAnalyzer._extract_data: the pattern types found in the text,
\* each with its values.
ExtractData(content) == DataOf([k \in DOMAIN PatternTypes |-> FindIter(PatternTypes[k], content, 1)])

-----------------------------------------------------------------------------
(* ContradictionAnalyzer: conflicts, severity and score                    *)

Abs(n) == IF n < 0 THEN 0 - n ELSE n

DigitValue(c) ==
    CASE c = "0" -> 0 [] c = "1" -> 1 [] c = "2" -> 2 [] c = "3" -> 3 [] c = "4" -> 4
      [] c = "5" -> 5 [] c = "6" -> 6 [] c = "7" -> 7 [] c = "8" -> 8 [] c = "9" -> 9

\* The digits of a sequence of characters read as a natural number.
RECURSIVE DigitsValue(_)
DigitsValue(s) ==
    IF s = <<>> THEN 0
    ELSE 10 * DigitsValue(SubSeq(s, 1, Len(s) - 1)) + DigitValue(s[Len(s)])

RECURSIVE Pow10(_)
Pow10(n) == IF n = 0 THEN 1 ELSE 10 * Pow10(n - 1)

\* value.replace(',', '')
StripCommas(value) == SelectSeq(value, LAMBDA c : c # ",")

\* float(value) does not raise: digits with at most one decimal point.
\* (Signs, exponents, blanks and the names inf and nan, which float also
\* accepts, are not among the values explored.)
IsNumeral(value) ==
    /\ \A k \in DOMAIN value : IsDigit(value[k]) \/ value[k] = "."
    /\ Cardinality({k \in DOMAIN value : value[k] = "."}) <= 1
    /\ \E k \in DOMAIN value : IsDigit(value[k])

\* float(value.replace(',', '')) of a numeral, as the fraction num / den it
\* denotes.
ParseFloat(value) ==
    LET plain == StripCommas(value)
        points == {k \in DOMAIN plain : plain[k] = "."}
    IN  IF points = {}
        THEN [num |-> DigitsValue(plain), den |-> 1]
        ELSE LET k == CHOOSE h \in points : TRUE IN
             [num |-> DigitsValue(SelectSeq(plain, LAMBDA c : c # ".")),
              den |-> Pow10(Len(plain) - k)]

\* abs(t - r) > (r * 1/parts). For whole numbers the floating-point test is
\* the exact one; for numbers with decimals it may also hold when the two
\* sides are exactly equal, as the rounding of the operations falls, and
\* float_ties is how it falls.
DiffersByMore(t, r, parts) ==
    LET diff == parts * Abs(t.num * r.den - r.num * t.den)
        margin == r.num * t.den
    IN  IF diff = margin /\ (t.den > 1 \/ r.den > 1) /\ margin > 0
        THEN float_ties
        ELSE diff > margin

\* t != r
NotEqual(t, r) == t.num * r.den # r.num * t.den

\* The opposites table of _values_conflict, in the order of the dict.
Opposites ==
    <<[key |-> <<"d", "e", "b", "e">>,
       vals |-> {<<"n", "o", " ", "d", "e", "b", "e">>, <<"p", "u", "e", "d", "e">>}],
      [key |-> <<"o", "b", "l", "i", "g", "a", "t", "o", "r", "i", "o">>,
       vals |-> {<<"o", "p", "c", "i", "o", "n", "a", "l">>,
                 <<"p", "r", "o", "h", "i", "b", "i", "d", "o">>}],
      [key |-> <<"r", "e", "q", "u", "e", "r", "i", "d", "o">>,
       vals |-> {<<"o", "p", "c", "i", "o", "n", "a", "l">>}]>>

\* The mutated threshold test: moderate and flexible exchanged.
ValuesConflict_TiersSwapped(target_val, rector_val, pattern_type, sensitivity) ==
    IF pattern_type \in {"plazo_dias", "plazo_meses", "plazo_años", "porcentaje"}
    THEN IF ~(IsNumeral(target_val) /\ IsNumeral(rector_val)) THEN FALSE
         ELSE IF sensitivity = "strict"
         THEN NotEqual(ParseFloat(target_val), ParseFloat(rector_val))
         ELSE IF sensitivity = "moderate"
         THEN DiffersByMore(ParseFloat(target_val), ParseFloat(rector_val), 5)
         ELSE DiffersByMore(ParseFloat(target_val), ParseFloat(rector_val), 10)
    ELSE IF pattern_type \in {"monto_soles", "monto_dolares"}
    THEN IF ~(IsNumeral(StripCommas(target_val)) /\ IsNumeral(StripCommas(rector_val))) THEN FALSE
         ELSE IF sensitivity = "strict"
         THEN NotEqual(ParseFloat(target_val), ParseFloat(rector_val))
         ELSE DiffersByMore(ParseFloat(target_val), ParseFloat(rector_val), 20)
    ELSE IF pattern_type \in {"obligacion", "prohibicion", "opcion"}
    THEN \E k \in DOMAIN Opposites :
            /\ Contains(LowerStr(target_val), Opposites[k].key)
            /\ \E opp \in Opposites[k].vals : Contains(LowerStr(rector_val), opp)
    ELSE FALSE

\* The mutated opposites test: the opposite is looked for in the target's
\* value, not in the governing one.
ValuesConflict_OppositeInTarget(target_val, rector_val, pattern_type, sensitivity) ==
    IF pattern_type \in {"plazo_dias", "plazo_meses", "plazo_años", "porcentaje"}
    THEN IF ~(IsNumeral(target_val) /\ IsNumeral(rector_val)) THEN FALSE
         ELSE IF sensitivity = "strict"
         THEN NotEqual(ParseFloat(target_val), ParseFloat(rector_val))
         ELSE IF sensitivity = "moderate"
         THEN DiffersByMore(ParseFloat(target_val), ParseFloat(rector_val), 10)
         ELSE DiffersByMore(ParseFloat(target_val), ParseFloat(rector_val), 5)
    ELSE IF pattern_type \in {"monto_soles", "monto_dolares"}
    THEN IF ~(IsNumeral(StripCommas(target_val)) /\ IsNumeral(StripCommas(rector_val))) THEN FALSE
         ELSE IF sensitivity = "strict"
         THEN NotEqual(ParseFloat(target_val), ParseFloat(rector_val))
         ELSE DiffersByMore(ParseFloat(target_val), ParseFloat(rector_val), 20)
    ELSE IF pattern_type \in {"obligacion", "prohibicion", "opcion"}
    THEN \E k \in DOMAIN Opposites :
            /\ Contains(LowerStr(target_val), Opposites[k].key)
            /\ \E opp \in Opposites[k].vals : Contains(LowerStr(target_val), opp)
    ELSE FALSE

\* ContradictionAnalyzer._values_conflict
ValuesConflict(target_val, rector_val, pattern_type, sensitivity) ==
    IF pattern_type \in {"plazo_dias", "plazo_meses", "plazo_años", "porcentaje"}
    THEN IF ~(IsNumeral(target_val) /\ IsNumeral(rector_val)) THEN FALSE
         ELSE IF sensitivity = "strict"
         THEN NotEqual(ParseFloat(target_val), ParseFloat(rector_val))
         ELSE IF sensitivity = "moderate"
         THEN DiffersByMore(ParseFloat(target_val), ParseFloat(rector_val), 10)
         ELSE DiffersByMore(ParseFloat(target_val), ParseFloat(rector_val), 5)
    ELSE IF pattern_type \in {"monto_soles", "monto_dolares"}
    THEN IF ~(IsNumeral(StripCommas(target_val)) /\ IsNumeral(StripCommas(rector_val))) THEN FALSE
         ELSE IF sensitivity = "strict"
         THEN NotEqual(ParseFloat(target_val), ParseFloat(rector_val))
         ELSE DiffersByMore(ParseFloat(target_val), ParseFloat(rector_val), 20)
    ELSE IF pattern_type \in {"obligacion", "prohibicion", "opcion"}
    THEN \E k \in DOMAIN Opposites :
            /\ Contains(LowerStr(target_val), Opposites[k].key)
            /\ \E opp \in Opposites[k].vals : Contains(LowerStr(rector_val), opp)
    ELSE FALSE

\* The sequences of a sequence of sequences, joined in order.
RECURSIVE Flatten(_)
Flatten(seqs) == IF seqs = <<>> THEN <<>> ELSE Head(seqs) \o Flatten(Tail(seqs))

\* ContradictionAnalyzer._compare_values: the conflicting pairs, target-major.
CompareValues(target_values, rector_values, pattern_type, sensitivity) ==
    Flatten([i \in DOMAIN target_values |->
        Flatten([j \in DOMAIN rector_values |->
            IF ValuesConflict(target_values[i].value, rector_values[j].value,
                              pattern_type, sensitivity)
            THEN <<[target |-> target_values[i].value,
                    rector |-> rector_values[j].value]>>
            ELSE <<>>])])

\* severity_weights.get(pattern_type, "medium")
severity_weights(pattern_type) ==
    CASE pattern_type \in {"plazo_dias", "plazo_meses", "plazo_años"} -> "high"
      [] pattern_type \in {"monto_soles", "monto_dolares"} -> "high"
      [] pattern_type = "porcentaje" -> "medium"
      [] pattern_type \in {"obligacion", "prohibicion"} -> "critical"
      [] pattern_type = "opcion" -> "medium"
      [] pattern_type = "autoriza" -> "high"
      [] pattern_type = "deniega" -> "critical"
      [] OTHER -> "medium"

\* The mutated escalation: the strict step is applied before the rank step.
CalculateSeverity_StrictFirst(pattern_type, target_level, rector_level, sensitivity) ==
    LET base == severity_weights(pattern_type)
        raised == IF base = "high" /\ sensitivity = "strict" THEN "critical" ELSE base
    IN  IF target_level - rector_level > 2 /\ raised = "medium" THEN "high" ELSE raised

\* ContradictionAnalyzer._calculate_severity
CalculateSeverity(pattern_type, target_level, rector_level, sensitivity) ==
    LET base == severity_weights(pattern_type)
        raised == IF target_level - rector_level > 2 /\ base = "medium"
                  THEN "high" ELSE base
    IN  IF raised = "high" /\ sensitivity = "strict" THEN "critical" ELSE raised

\* The contradiction records of one pattern type for one governing
\* document. The context strings and the description of a record are
\* left out.
Contradictions(conflicts, pattern_type, target_metadata, rector_metadata, sensitivity) ==
    [k \in DOMAIN conflicts |->
        [type |-> pattern_type,
         severity |-> CalculateSeverity(
             pattern_type,
             GetOr(target_metadata, "nivel_jerarquico", 999),
             GetOr(rector_metadata, "nivel_jerarquico", 1),
             sensitivity),
         target_value |-> conflicts[k].target,
         rector_value |-> conflicts[k].rector,
         rector_doc |-> GetOr(rector_metadata, "doc_id", "Desconocido"),
         rector_level |-> GetOr(rector_metadata, "nivel_jerarquico", 1)]]

\* The records that one governing document contributes, in the order the
\* loops append them.
RectorConflicts(target_data, target_metadata, rector_data, rector_metadata, sensitivity) ==
    Flatten([k \in DOMAIN PatternTypes |->
        IF PatternTypes[k] \in DOMAIN target_data /\ PatternTypes[k] \in DOMAIN rector_data
        THEN Contradictions(CompareValues(target_data[PatternTypes[k]],
                                          rector_data[PatternTypes[k]],
                                          PatternTypes[k], sensitivity),
                            PatternTypes[k], target_metadata, rector_metadata,
                            sensitivity)
        ELSE <<>>])

\* penalty, counted in twentieths: 0.2, 0.1 and 0.05 per contradiction.
RECURSIVE Penalty(_)
Penalty(contradictions) ==
    IF contradictions = <<>> THEN 0
    ELSE Penalty(Tail(contradictions))
            + (CASE Head(contradictions).severity = "critical" -> 4
                 [] Head(contradictions).severity = "high" -> 2
                 [] OTHER -> 1)

\* n / d rounded to the nearest integer; a value halfway between two
\* integers goes the way its floating-point representation leans.
RoundHalf(n, d) ==
    IF 2 * (n % d) = d THEN (IF float_ties THEN (n \div d) + 1 ELSE n \div d)
    ELSE IF 2 * (n % d) > d THEN (n \div d) + 1 ELSE n \div d

\* The mutated score: without the max(0, ...) that keeps it from going
\* below zero.
ComplianceScore_Unclamped(contradictions, total_checks) ==
    IF total_checks > 0
    THEN RoundHalf(1000 * (20 * total_checks - Penalty(contradictions)),
                   20 * total_checks)
    ELSE 1000

\* round(compliance_score, 3) in thousandths: 1.0 when there are no checks,
\* else max(0, 1.0 - penalty / max(total_checks, 1)).
ComplianceScore(contradictions, total_checks) ==
    IF total_checks > 0
    THEN IF Penalty(contradictions) >= 20 * total_checks THEN 0
         ELSE RoundHalf(1000 * (20 * total_checks - Penalty(contradictions)),
                        20 * total_checks)
    ELSE 1000

\* score >= parts / 10 for the unrounded score; on equality the comparison
\* of the two floating-point numbers falls either way unless the penalty
\* is zero.
ScoreAtLeast(contradictions, total_checks, tenths) ==
    IF total_checks > 0
    THEN LET p == Penalty(contradictions)
             lhs == 10 * (20 * total_checks - p)
             rhs == tenths * 20 * total_checks
         IN  IF lhs = rhs /\ p > 0 THEN float_ties ELSE lhs > rhs \/ lhs = rhs
    ELSE TRUE

\* ContradictionAnalyzer._generate_recommendation: which of the four
\* sentences is returned.
GenerateRecommendation(contradictions, total_checks) ==
    IF ScoreAtLeast(contradictions, total_checks, 9) THEN "cumple"
    ELSE IF ScoreAtLeast(contradictions, total_checks, 7) THEN "inconsistencias"
    ELSE IF ScoreAtLeast(contradictions, total_checks, 5) THEN "contradicciones importantes"
    ELSE "contradicciones críticas"

\* The mutated report: the warnings are penalised and counted with the
\* contradictions.
Report_CountsWarnings(contradictions, warnings, total_checks, rectores_checked) ==
    [success |-> TRUE,
     contradictions_found |-> Len(contradictions),
     warnings_found |-> Len(warnings),
     contradictions |-> contradictions,
     warnings |-> warnings,
     compliance_score |-> ComplianceScore(contradictions \o warnings, total_checks),
     analysis_summary |->
        [critical_issues |->
            Len(SelectSeq(contradictions, LAMBDA c : c.severity = "critical")),
         high_issues |->
            Len(SelectSeq(contradictions, LAMBDA c : c.severity = "high")),
         medium_issues |->
            Len(SelectSeq(contradictions \o warnings, LAMBDA c : c.severity = "medium")),
         total_rectores_checked |-> rectores_checked,
         recommendation |-> GenerateRecommendation(contradictions, total_checks)]]

\* The dict detect_contradictions returns, from its two lists;
\* compliance_score is in thousandths.
Report(contradictions, warnings, total_checks, rectores_checked) ==
    [success |-> TRUE,
     contradictions_found |-> Len(contradictions),
     warnings_found |-> Len(warnings),
     contradictions |-> contradictions,
     warnings |-> warnings,
     compliance_score |-> ComplianceScore(contradictions, total_checks),
     analysis_summary |->
        [critical_issues |->
            Len(SelectSeq(contradictions, LAMBDA c : c.severity = "critical")),
         high_issues |->
            Len(SelectSeq(contradictions, LAMBDA c : c.severity = "high")),
         medium_issues |->
            Len(SelectSeq(contradictions, LAMBDA c : c.severity = "medium")),
         total_rectores_checked |-> rectores_checked,
         recommendation |-> GenerateRecommendation(contradictions, total_checks)]]

\* The mutated split: only critical records count as contradictions.
Classify_CriticalOnly(found, total_checks, rectores_checked) ==
    Report(SelectSeq(found, LAMBDA c : c.severity = "critical"),
           SelectSeq(found, LAMBDA c : c.severity # "critical"),
           total_checks, rectores_checked)

\* The records found go to contradictions when critical or high, and to
\* warnings otherwise.
Classify(found, total_checks, rectores_checked) ==
    Report(SelectSeq(found, LAMBDA c : c.severity \in {"critical", "high"}),
           SelectSeq(found, LAMBDA c : c.severity \notin {"critical", "high"}),
           total_checks, rectores_checked)

\* detect_contradictions once the target's data is extracted.
DetectOn(target_data, target_metadata, rector_contents, sensitivity) ==
    Classify(Flatten([k \in DOMAIN rector_contents |->
                 RectorConflicts(target_data, target_metadata,
                                 ExtractData(rector_contents[k][1]),
                                 rector_contents[k][2], sensitivity)]),
             Cardinality(DOMAIN target_data) * Len(rector_contents),
             Len(rector_contents))

\* ContradictionAnalyzer.detect_contradictions on the texts themselves.
detect_contradictions(target_content, target_metadata, rector_contents, sensitivity) ==
    DetectOn(ExtractData(target_content), target_metadata, rector_contents, sensitivity)

-----------------------------------------------------------------------------
(* Direct calls of the analyzer                                            *)

\* The texts of the analyzer's own example (the module's __main__ block).
SelfTestTarget ==
    <<"\n", " ", " ", " ", " ", "L", "a", " ", "u", "n", "i", "d", "a", "d",
      " ", "o", "t", "o", "r", "g", "a", " ", "u", "n", " ", "p", "l", "a",
      "z", "o", " ", "d", "e", " ", "3", "0", " ", "d", "í", "a", "s", " ",
      "p", "a", "r", "a", " ", "l", "a", " ", "r", "e", "s", "p", "u", "e",
      "s", "t", "a", ".", "\n", " ", " ", " ", " ", "E", "l", " ", "p", "r",
      "e", "s", "u", "p", "u", "e", "s", "t", "o", " ", "m", "á", "x", "i",
      "m", "o", " ", "a", "u", "t", "o", "r", "i", "z", "a", "d", "o", " ",
      "e", "s", " ", "d", "e", " ", "$", "5", ",", "0", "0", "0", " ", "d",
      "ó", "l", "a", "r", "e", "s", ".", "\n", " ", " ", " ", " ", "L", "o",
      "s", " ", "u", "s", "u", "a", "r", "i", "o", "s", " ", "p", "u", "e",
      "d", "e", "n", " ", "o", "p", "c", "i", "o", "n", "a", "l", "m", "e",
      "n", "t", "e", " ", "u", "s", "a", "r", " ", "a", "u", "t", "e", "n",
      "t", "i", "c", "a", "c", "i", "ó", "n", " ", "m", "u", "l", "t", "i",
      "f", "a", "c", "t", "o", "r", ".", "\n", " ", " ", " ", " ">>

SelfTestRector ==
    <<"\n", " ", " ", " ", " ", "T", "o", "d", "a", "s", " ", "l", "a", "s",
      " ", "e", "n", "t", "i", "d", "a", "d", "e", "s", " ", "d", "e", "b",
      "e", "n", " ", "o", "t", "o", "r", "g", "a", "r", " ", "u", "n", " ",
      "p", "l", "a", "z", "o", " ", "m", "í", "n", "i", "m", "o", " ", "d",
      "e", " ", "4", "5", " ", "d", "í", "a", "s", ".", "\n", " ", " ", " ",
      " ", "E", "l", " ", "p", "r", "e", "s", "u", "p", "u", "e", "s", "t",
      "o", " ", "a", "u", "t", "o", "r", "i", "z", "a", "d", "o", " ", "n",
      "o", " ", "d", "e", "b", "e", " ", "e", "x", "c", "e", "d", "e", "r",
      " ", "$", "1", "0", ",", "0", "0", "0", " ", "d", "ó", "l", "a", "r",
      "e", "s", ".", "\n", " ", " ", " ", " ", "L", "a", " ", "a", "u", "t",
      "e", "n", "t", "i", "c", "a", "c", "i", "ó", "n", " ", "m", "u", "l",
      "t", "i", "f", "a", "c", "t", "o", "r", " ", "e", "s", " ", "o", "b",
      "l", "i", "g", "a", "t", "o", "r", "i", "a", " ", "p", "a", "r", "a",
      " ", "t", "o", "d", "o", "s", " ", "l", "o", "s", " ", "u", "s", "u",
      "a", "r", "i", "o", "s", ".", "\n", " ", " ", " ", " ">>

SelfTestTargetMeta == [doc_id |-> "DIR_TEST_001", nivel_jerarquico |-> 4, tipo |-> "DIR"]

SelfTestRectorMeta == [doc_id |-> "LEY_RECTOR_001", nivel_jerarquico |-> 1, tipo |-> "LEY"]

\* Texts the analyzer is called on: periods, amounts and percentages that
\* are equal, close and far apart, and the modal markers.
TextLimits ==
    <<"n", "o", " ", "d", "e", "b", "e", " ", "e", "x", "c", "e", "d", "e",
      "r", " ", "3", "0", " ", "d", "í", "a", "s", " ", "o", " ", "4", "5",
      " ", "d", "í", "a", "s">>

TextQuotaB ==
    <<"3", "3", " ", "d", "í", "a", "s", ",", " ", "2", ".", "5", "%", " ",
      "y", " ", "S", "/", " ", "1", "0", "0">>

TextQuotaC ==
    <<"3", "5", " ", "d", "í", "a", "s", ",", " ", "2", ".", "7", "5", "%",
      " ", "y", " ", "S", "/", " ", "1", "0", "4">>

TextSteps ==
    <<"1", " ", "d", "í", "a", " ", "2", " ", "d", "í", "a", "s", " ", "3",
      " ", "d", "í", "a", "s">>

TextBudgetE ==
    <<"$", "5", ",", "0", "0", "0", " ", "y", " ", "1", "0", "%">>

TextBudgetF ==
    <<"$", "1", "0", ",", "0", "0", "0", " ", "y", " ", "2", "0", "%">>

\* Documents as (content, metadata) pairs; one carries no rank.
AnalyzerDocs ==
    {<<TextLimits, [doc_id |-> "DOC_A", nivel_jerarquico |-> 1]>>,
     <<TextQuotaB, [doc_id |-> "DOC_B", nivel_jerarquico |-> 2]>>,
     <<TextQuotaC, [doc_id |-> "DOC_C", nivel_jerarquico |-> 3]>>,
     <<TextSteps, [doc_id |-> "DOC_D", nivel_jerarquico |-> 5]>>,
     <<TextBudgetE, [doc_id |-> "DOC_E"]>>,
     <<TextBudgetF, [doc_id |-> "DOC_F", nivel_jerarquico |-> 3]>>}

MaxRectors == 2

Sensitivities == {"strict", "moderate", "flexible"}

\* The lists of up to MaxRectors different governing documents.
RectorLists ==
    {l \in UNION {[1..n -> AnalyzerDocs] : n \in 0..MaxRectors} :
        \A i, j \in DOMAIN l : l[i] = l[j] => i = j}

\* One call of detect_contradictions. The analyzer keeps nothing from one
\* call to the next, so a call is made from the state after construction.
CallDetectContradictions(target, rector_contents, sensitivity) ==
    /\ analyzer_call = [op |-> "none"]
    /\ analyzer_call' = [op |-> "detect_contradictions",
                         target_content |-> target[1],
                         target_metadata |-> target[2],
                         rector_contents |-> rector_contents,
                         sensitivity |-> sensitivity]
    /\ analyzer_result' = detect_contradictions(target[1], target[2],
                                                rector_contents, sensitivity)
    /\ UNCHANGED <<corpus, client, session_vars, reader_vars, float_ties,
                   comparer_call, comparer_result, process_vars>>

\* The module run as a script: one analysis of the example, in a fresh
\* process.
SelfTest ==
    /\ analyzer_call = [op |-> "none"]
    /\ analyzer_call' = [op |-> "self_test",
                         target_content |-> SelfTestTarget,
                         target_metadata |-> SelfTestTargetMeta,
                         rector_contents |-> <<<<SelfTestRector, SelfTestRectorMeta>>>>,
                         sensitivity |-> "moderate"]
    /\ analyzer_result' = detect_contradictions(
                              SelfTestTarget, SelfTestTargetMeta,
                              <<<<SelfTestRector, SelfTestRectorMeta>>>>, "moderate")
    /\ UNCHANGED <<corpus, client, session_vars, reader_vars, float_ties,
                   comparer_call, comparer_result, process_vars>>

InitAnalyzer ==
    /\ client = FALSE
    /\ corpus = LoopCorpus
    /\ IdleSession
    /\ analyzer_call = [op |-> "none"]
    /\ analyzer_result = NoPayload
    /\ float_ties \in BOOLEAN
    /\ comparer_call = [op |-> "none"]
    /\ comparer_result = NoPayload
    /\ IdleProcess

NextAnalyzer ==
    \/ \E target \in AnalyzerDocs, rector_contents \in RectorLists,
          sensitivity \in Sensitivities :
          CallDetectContradictions(target, rector_contents, sensitivity)
    \/ SelfTest

SpecAnalyzer == InitAnalyzer /\ [][NextAnalyzer]_vars

-----------------------------------------------------------------------------
(* Properties of the analyzer                                              *)

DetectCalled == analyzer_call.op = "detect_contradictions"

\* What the latest call would have returned under another sensitivity.
ResultUnder(sensitivity) ==
    detect_contradictions(analyzer_call.target_content, analyzer_call.target_metadata,
                          analyzer_call.rector_contents, sensitivity)

\* The conflicts a result reports, whichever list they are in and whatever
\* their severity.
ConflictPairs(result) ==
    {[type |-> c.type, target_value |-> c.target_value,
      rector_value |-> c.rector_value, rector_doc |-> c.rector_doc] :
        c \in Range(result.contradictions) \cup Range(result.warnings)}

Strictness(sensitivity) ==
    CASE sensitivity = "strict" -> 3
      [] sensitivity = "moderate" -> 2
      [] sensitivity = "flexible" -> 1

\* C11: the conflicts reported under a sensitivity include every conflict
\* reported for the same texts under each looser sensitivity (strict over
\* moderate over flexible), for every fact type.
C11_StricterFindsMore ==
    DetectCalled =>
        \A looser \in Sensitivities :
            Strictness(looser) < Strictness(analyzer_call.sensitivity)
                => ConflictPairs(ResultUnder(looser)) \subseteq ConflictPairs(analyzer_result)

\* A strict call that reports more than the moderate one would, which in
\* turn reports more than the flexible one, which reports something.
C11_Witness ==
    /\ DetectCalled
    /\ analyzer_call.sensitivity = "strict"
    /\ ConflictPairs(ResultUnder("moderate")) # ConflictPairs(analyzer_result)
    /\ ConflictPairs(ResultUnder("flexible")) # ConflictPairs(ResultUnder("moderate"))
    /\ ConflictPairs(ResultUnder("flexible")) # {}

\* total_checks of the latest call.
TotalChecks ==
    Cardinality(DOMAIN ExtractData(analyzer_call.target_content))
        * Len(analyzer_call.rector_contents)

\* A contradiction of the given severity, as the score sees it.
Added(severity) == [severity |-> severity]

\* C12: the compliance score is between 0 and 1 (0 and 1000 thousandths),
\* and with total_checks fixed it does not rise as critical or high
\* contradictions are added: not along the list the call built, and not
\* with one more.
C12_ScoreBoundedAndMonotone ==
    DetectCalled =>
        LET contradictions == analyzer_result.contradictions
            total_checks == TotalChecks
            ScoreOf(n) == ComplianceScore(SubSeq(contradictions, 1, n), total_checks)
        IN  /\ analyzer_result.compliance_score = ScoreOf(Len(contradictions))
            /\ \A n \in 0..Len(contradictions) :
                  /\ ScoreOf(n) \in 0..1000
                  /\ n > 0 => ScoreOf(n) <= ScoreOf(n - 1)
            /\ \A severity \in {"critical", "high"} :
                  ComplianceScore(Append(contradictions, Added(severity)), total_checks)
                      <= analyzer_result.compliance_score

\* A call whose score fell with each of its contradictions and stayed
\* above zero.
C12_Witness ==
    /\ DetectCalled
    /\ Len(analyzer_result.contradictions) >= 2
    /\ analyzer_result.compliance_score \in 1..999
    /\ LET total_checks == TotalChecks IN
       \A n \in 1..Len(analyzer_result.contradictions) :
          ComplianceScore(SubSeq(analyzer_result.contradictions, 1, n), total_checks)
              < ComplianceScore(SubSeq(analyzer_result.contradictions, 1, n - 1),
                                total_checks)

\* Every governing text of the latest call is the target text itself.
IdenticalTexts ==
    /\ analyzer_call.rector_contents # <<>>
    /\ \A k \in DOMAIN analyzer_call.rector_contents :
          analyzer_call.rector_contents[k][1] = analyzer_call.target_content

\* C13: a text checked against itself, under any sensitivity, yields no
\* contradictions and a compliance score of 1.0.
C13_SameTextIsClean ==
    (DetectCalled /\ IdenticalTexts) =>
        /\ analyzer_result.contradictions_found = 0
        /\ analyzer_result.compliance_score = 1000

SelfTestRan == analyzer_call.op = "self_test"

\* The contradictions of the latest result with the given type and values.
Reported(type, target_value, rector_value) ==
    {k \in DOMAIN analyzer_result.contradictions :
        /\ analyzer_result.contradictions[k].type = type
        /\ analyzer_result.contradictions[k].target_value = target_value
        /\ analyzer_result.contradictions[k].rector_value = rector_value}

OfType(type) ==
    {k \in DOMAIN analyzer_result.contradictions :
        analyzer_result.contradictions[k].type = type}

ModalTypes == {"obligacion", "prohibicion", "opcion"}

\* The example reports one day-period contradiction (30 against 45) and one
\* currency contradiction (5,000 against 10,000), and scores below 1.0.
SelfTestNumbers ==
    /\ Cardinality(OfType("plazo_dias")) = 1
    /\ Cardinality(Reported("plazo_dias", <<"3", "0">>, <<"4", "5">>)) = 1
    /\ Cardinality(OfType("monto_dolares")) = 1
    /\ Cardinality(Reported("monto_dolares", <<"5", ",", "0", "0", "0">>,
                            <<"1", "0", ",", "0", "0", "0">>)) = 1
    /\ OfType("monto_soles") = {}
    /\ analyzer_result.compliance_score < 1000

\* C14: under moderate sensitivity the analyzer's own example yields exactly
\* one day-period contradiction (30 against 45), exactly one currency
\* contradiction (5,000 against 10,000) and a modality conflict between the
\* target's optional marker and the governing text's obligation marker, with
\* a score below 1.0.
C14_SelfTestFindings ==
    SelfTestRan =>
        /\ SelfTestNumbers
        /\ \E c \in Range(analyzer_result.contradictions)
                        \cup Range(analyzer_result.warnings) :
              c.type \in ModalTypes

\* What the example does yield: the two numeric contradictions and nothing
\* else, in either list.
C14_NumbersOnly ==
    SelfTestRan =>
        /\ SelfTestNumbers
        /\ analyzer_result.contradictions_found = 2
        /\ analyzer_result.warnings_found = 0
        /\ analyzer_result.compliance_score = 950

\* Every conflict the latest call detected, in the order of detection.
Detected ==
    Flatten([k \in DOMAIN analyzer_call.rector_contents |->
        RectorConflicts(ExtractData(analyzer_call.target_content),
                        analyzer_call.target_metadata,
                        ExtractData(analyzer_call.rector_contents[k][1]),
                        analyzer_call.rector_contents[k][2],
                        analyzer_call.sensitivity)])

\* C19: every detected conflict is in exactly one of the two lists, the
\* critical and high ones in contradictions and the medium ones in warnings,
\* and contradictions_found and warnings_found are the lengths of the lists.
C19_OneListPerConflict ==
    DetectCalled =>
        LET detected == Detected
            contradictions == analyzer_result.contradictions
            warnings == analyzer_result.warnings
        IN  /\ \A c \in Range(detected) :
                  /\ c.severity \in {"critical", "high", "medium"}
                  /\ Occurrences(contradictions, c)
                        = (IF c.severity \in {"critical", "high"}
                           THEN Occurrences(detected, c) ELSE 0)
                  /\ Occurrences(warnings, c)
                        = (IF c.severity = "medium"
                           THEN Occurrences(detected, c) ELSE 0)
            /\ Range(contradictions) \cup Range(warnings) \subseteq Range(detected)
            /\ analyzer_result.contradictions_found = Len(contradictions)
            /\ analyzer_result.warnings_found = Len(warnings)

\* A call that filled both lists, with a high contradiction among them.
C19_Witness ==
    /\ DetectCalled
    /\ analyzer_result.warnings_found > 0
    /\ \E c \in Range(analyzer_result.contradictions) : c.severity = "high"

-----------------------------------------------------------------------------
(* DocumentComparer (app/mcp/servers/comparer.py)                          *)

LowerSet == {LowerChars[k] : k \in DOMAIN LowerChars}

\* \w over the characters of the texts: letters, digits and the underscore.
IsWordChar(c) == c \in UpperSet \/ c \in LowerSet \/ IsDigit(c) \/ c = "_"

\* The position after the lower-case letters that start at position i.
RECURSIVE LowerRunEnd(_, _)
LowerRunEnd(text, i) ==
    IF i <= Len(text) /\ text[i] \in LowerSet THEN LowerRunEnd(text, i + 1) ELSE i

\* [A-ZÁÉÍÓÚÑ][a-záéíóúñ]+ at position i: the position after it, or i when
\* it does not match.
TermWordEnd(text, i) ==
    IF i <= Len(text) /\ text[i] \in UpperSet /\ LowerRunEnd(text, i + 1) > i + 1
    THEN LowerRunEnd(text, i + 1)
    ELSE i

\* \b after a match that ends before position e.
BoundaryAt(text, e) == e > Len(text) \/ ~IsWordChar(text[e])

\* (?:\s+[A-ZÁÉÍÓÚÑ][a-záéíóúñ]+)*\b from position e, where a word has just
\* ended: the position after the longest continuation that ends at a word
\* boundary, or 0 when there is none.
RECURSIVE TermExtend(_, _)
TermExtend(text, e) ==
    IF /\ SpacesEnd(text, e) > e
       /\ TermWordEnd(text, SpacesEnd(text, e)) > SpacesEnd(text, e)
       /\ TermExtend(text, TermWordEnd(text, SpacesEnd(text, e))) # 0
    THEN TermExtend(text, TermWordEnd(text, SpacesEnd(text, e)))
    ELSE IF BoundaryAt(text, e) THEN e ELSE 0

\* The pattern of _compare_terminology tried at position i: the position
\* after the match, or 0.
TermEnd(text, i) ==
    IF /\ i = 1 \/ ~IsWordChar(text[i - 1])
       /\ TermWordEnd(text, i) > i
    THEN TermExtend(text, TermWordEnd(text, i))
    ELSE 0

RECURSIVE FindTerms(_, _)

\* The term that starts at position j, and the terms after it.
TermsFrom(text, j) ==
    {SubSeq(text, j, TermEnd(text, j) - 1)} \cup FindTerms(text, TermEnd(text, j))

\* set(re.findall(pattern, doc)) from position i on.
FindTerms(text, i) ==
    IF \A j \in i..Len(text) : TermEnd(text, j) = 0 THEN {}
    ELSE TermsFrom(text, CHOOSE j \in i..Len(text) :
                            /\ TermEnd(text, j) # 0
                            /\ \A h \in i..(j - 1) : TermEnd(text, h) = 0)

common_words ==
    {<<"E", "l">>, <<"L", "a">>, <<"L", "o", "s">>, <<"L", "a", "s">>,
     <<"U", "n">>, <<"U", "n", "a">>, <<"D", "e">>, <<"D", "e", "l">>,
     <<"E", "n">>, <<"P", "o", "r">>, <<"P", "a", "r", "a">>, <<"C", "o", "n">>}

\* n / d rounded to three decimals, in thousandths.
Round3(n, d) == RoundHalf(1000 * n, d)

Max(a, b) == IF a >= b THEN a ELSE b

\* The dict of _compare_terminology from the two term sets. The lists made
\* from sets are kept as sets (their order is the set's iteration order);
\* the analysis sentence is left out.
TerminologyReport(terms1, terms2, id1, id2) ==
    [comparison_type |-> "terminology",
     doc1_id |-> id1,
     doc2_id |-> id2,
     unique_to_doc1 |-> terms1 \ terms2,
     unique_to_doc2 |-> terms2 \ terms1,
     common_terms |-> terms1 \cap terms2,
     terminology_similarity |->
        Round3(Cardinality(terms1 \cap terms2),
               Max(Cardinality(terms1 \cup terms2), 1)),
     total_unique_terms_doc1 |-> Cardinality(terms1),
     total_unique_terms_doc2 |-> Cardinality(terms2)]

\* DocumentComparer._compare_terminology
CompareTerminology(doc1, doc2, id1, id2) ==
    TerminologyReport(FindTerms(doc1, 1) \ common_words,
                      FindTerms(doc2, 1) \ common_words, id1, id2)

\* The patterns of _compare_numeric_values that reach the result, each by
\* the analyzer pattern with the same regular expression.
NumericCategories ==
    <<[category |-> "dias", pattern_type |-> "plazo_dias"],
      [category |-> "meses", pattern_type |-> "plazo_meses"],
      [category |-> "años", pattern_type |-> "plazo_años"],
      [category |-> "porcentajes", pattern_type |-> "porcentaje"],
      [category |-> "montos", pattern_type |-> "monto_dolares"]>>

CategoryNames == {NumericCategories[k].category : k \in DOMAIN NumericCategories}

\* re.findall(pattern, doc, re.IGNORECASE): group 1 of every match.
FindAll(pattern_type, doc) ==
    [k \in DOMAIN FindIter(pattern_type, doc, 1) |-> FindIter(pattern_type, doc, 1)[k].value]

\* values1 / values2 without numeros_generales.
NumericValues(doc) ==
    [category \in CategoryNames |->
        FindAll((CHOOSE c \in Range(NumericCategories) : c.category = category).pattern_type,
                doc)]

\* v[:n]
Prefix(v, n) == SubSeq(v, 1, IF Len(v) < n THEN Len(v) ELSE n)

\* The dict of _compare_numeric_values from the two value dicts; the
\* analysis sentence is left out.
NumericReport(values1, values2, id1, id2) ==
    [comparison_type |-> "numeric",
     doc1_id |-> id1,
     doc2_id |-> id2,
     values_doc1 |-> [category \in CategoryNames |-> Prefix(values1[category], 10)],
     values_doc2 |-> [category \in CategoryNames |-> Prefix(values2[category], 10)],
     mismatches |->
        [category \in {c \in CategoryNames : Range(values1[c]) # Range(values2[c])} |->
            [solo_en_doc1 |-> Range(values1[category]) \ Range(values2[category]),
             solo_en_doc2 |-> Range(values2[category]) \ Range(values1[category])]],
     potential_contradictions |->
        \E c \in CategoryNames : Range(values1[c]) # Range(values2[c])]

\* DocumentComparer._compare_numeric_values
CompareNumericValues(doc1, doc2, id1, id2) ==
    NumericReport(NumericValues(doc1), NumericValues(doc2), id1, id2)

\* The length of the longest common run of a from i and b from j, within
\* a[..ahi-1] and b[..bhi-1].
RECURSIVE CommonLen(_, _, _, _, _, _)
CommonLen(a, b, i, j, ahi, bhi) ==
    IF i < ahi /\ j < bhi /\ a[i] = b[j]
    THEN 1 + CommonLen(a, b, i + 1, j + 1, ahi, bhi)
    ELSE 0

\* The block of size k that find_longest_match picks: the one that starts
\* earliest in a and, of those, earliest in b.
EarliestBlock(a, b, alo, ahi, blo, bhi, k) ==
    CHOOSE m \in [i : alo..(ahi - 1), j : blo..(bhi - 1), size : {k}] :
        /\ CommonLen(a, b, m.i, m.j, ahi, bhi) >= k
        /\ \A i \in alo..(ahi - 1), j \in blo..(bhi - 1) :
              CommonLen(a, b, i, j, ahi, bhi) >= k
                  => (m.i < i \/ (m.i = i /\ m.j <= j))

\* SequenceMatcher.find_longest_match(alo, ahi, blo, bhi) with no junk
\* (positions from 1, ahi and bhi exclusive): the longest block, or size 0.
FindLongestMatch(a, b, alo, ahi, blo, bhi) ==
    IF \A i \in alo..(ahi - 1), j \in blo..(bhi - 1) : a[i] # b[j]
    THEN [i |-> alo, j |-> blo, size |-> 0]
    ELSE EarliestBlock(a, b, alo, ahi, blo, bhi,
             CHOOSE k \in 1..(ahi - alo) :
                /\ \E i \in alo..(ahi - 1), j \in blo..(bhi - 1) :
                      CommonLen(a, b, i, j, ahi, bhi) = k
                /\ \A i \in alo..(ahi - 1), j \in blo..(bhi - 1) :
                      CommonLen(a, b, i, j, ahi, bhi) <= k)

RECURSIVE MatchedSize(_, _, _, _, _, _)

\* The block m and the blocks get_matching_blocks finds to its left and to
\* its right: the sum of their sizes.
MatchedAround(a, b, alo, ahi, blo, bhi, m) ==
    IF m.size = 0 THEN 0
    ELSE m.size
         + (IF alo < m.i /\ blo < m.j
            THEN MatchedSize(a, b, alo, m.i, blo, m.j) ELSE 0)
         + (IF m.i + m.size < ahi /\ m.j + m.size < bhi
            THEN MatchedSize(a, b, m.i + m.size, ahi, m.j + m.size, bhi) ELSE 0)

\* SequenceMatcher.get_matching_blocks: the total size of the blocks.
MatchedSize(a, b, alo, ahi, blo, bhi) ==
    MatchedAround(a, b, alo, ahi, blo, bhi, FindLongestMatch(a, b, alo, ahi, blo, bhi))

\* SequenceMatcher(None, a, b).ratio() rounded to three decimals, in
\* thousandths, for sequences under the 200 elements where the automatic
\* junk heuristic starts.
Ratio(a, b) ==
    IF Len(a) + Len(b) = 0 THEN 1000
    ELSE Round3(2 * MatchedSize(a, b, 1, Len(a) + 1, 1, Len(b) + 1), Len(a) + Len(b))

\* str.strip()
RECURSIVE Strip(_)
Strip(l) ==
    IF l = <<>> THEN l
    ELSE IF IsSpace(Head(l)) THEN Strip(Tail(l))
    ELSE IF IsSpace(l[Len(l)]) THEN Strip(SubSeq(l, 1, Len(l) - 1))
    ELSE l

RECURSIVE Split(_, _)

\* The piece that ends before the line break at position j, and the pieces
\* after it.
SplitAt(doc, i, j) == <<SubSeq(doc, i, j - 1)>> \o Split(doc, j + 1)

\* doc.split('\n') from position i on.
Split(doc, i) ==
    IF \A j \in i..Len(doc) : doc[j] # "\n" THEN <<SubSeq(doc, i, Len(doc))>>
    ELSE SplitAt(doc, i, CHOOSE j \in i..Len(doc) :
                            doc[j] = "\n" /\ \A h \in i..(j - 1) : doc[h] # "\n")

\* [l.strip() for l in doc.split('\n') if l.strip()]
Lines(doc) ==
    SelectSeq([k \in DOMAIN Split(doc, 1) |-> Strip(Split(doc, 1)[k])],
              LAMBDA l : l # <<>>)

\* re.match(r'^\d+\.', l) or l.isupper()
IsSection(l) ==
    \/ DigitsEnd(l, 1) > 1 /\ DigitsEnd(l, 1) <= Len(l) /\ l[DigitsEnd(l, 1)] = "."
    \/ /\ \E k \in DOMAIN l : l[k] \in UpperSet
       /\ \A k \in DOMAIN l : l[k] \notin LowerSet

\* The dict of _compare_structure from the two lists of lines; the analysis
\* sentence is left out.
StructureReport(lines1, lines2, id1, id2) ==
    [comparison_type |-> "structure",
     doc1_id |-> id1,
     doc2_id |-> id2,
     doc1_lines |-> Len(lines1),
     doc2_lines |-> Len(lines2),
     doc1_sections |-> Len(SelectSeq(lines1, IsSection)),
     doc2_sections |-> Len(SelectSeq(lines2, IsSection)),
     structure_similarity |-> Ratio(lines1, lines2),
     line_difference |-> Abs(Len(lines1) - Len(lines2)),
     sections_sample_doc1 |-> Prefix(SelectSeq(lines1, IsSection), 5),
     sections_sample_doc2 |-> Prefix(SelectSeq(lines2, IsSection), 5)]

\* DocumentComparer._compare_structure
CompareStructure(doc1, doc2, id1, id2) ==
    StructureReport(Lines(doc1), Lines(doc2), id1, id2)

\* The dict of _compare_full from the three analyses and the similarity of
\* the texts.
FullReport(doc1, doc2, id1, id2, terminology, numeric, structure, text_similarity) ==
    [comparison_type |-> "full",
     doc1_id |-> id1,
     doc2_id |-> id2,
     text_similarity |-> text_similarity,
     length_doc1 |-> Len(doc1),
     length_doc2 |-> Len(doc2),
     terminology_analysis |-> terminology,
     numeric_analysis |-> numeric,
     structure_analysis |-> structure,
     summary |->
        [similar_terminology |-> terminology.terminology_similarity > 500,
         has_numeric_differences |-> numeric.potential_contradictions,
         similar_structure |-> structure.structure_similarity > 300,
         overall_similarity |-> text_similarity]]

\* DocumentComparer._compare_full
CompareFull(doc1, doc2, id1, id2) ==
    FullReport(doc1, doc2, id1, id2,
               CompareTerminology(doc1, doc2, id1, id2),
               CompareNumericValues(doc1, doc2, id1, id2),
               CompareStructure(doc1, doc2, id1, id2),
               Ratio(doc1, doc2))

\* DocumentComparer.compare_documents on the texts themselves; the ratios
\* are in thousandths.
compare_documents(doc1_content, doc2_content, doc1_id, doc2_id, comparison_type) ==
    CASE comparison_type = "terminology" ->
            CompareTerminology(doc1_content, doc2_content, doc1_id, doc2_id)
      [] comparison_type = "numeric" ->
            CompareNumericValues(doc1_content, doc2_content, doc1_id, doc2_id)
      [] comparison_type = "structure" ->
            CompareStructure(doc1_content, doc2_content, doc1_id, doc2_id)
      [] OTHER ->
            CompareFull(doc1_content, doc2_content, doc1_id, doc2_id)

-----------------------------------------------------------------------------
(* Direct calls of the comparer                                            *)

\* Texts the comparer is called on: short sequences of letters and of
\* one-letter lines, and texts with terms, sections and numbers.
TextAB ==
    <<"a", "\n", "b">>

TextBACB ==
    <<"b", "\n", "a", "\n", "c", "\n", "b">>

TextShort ==
    <<"a", "b">>

TextLong ==
    <<"b", "a", "c", "b">>

TextLaws ==
    <<"L", "e", "y", " ", "G", "e", "n", "e", "r", "a", "l", "\n", "1", ".",
      " ", "P", "l", "a", "n", " ", "A", "n", "u", "a", "l">>

TextHealth ==
    <<"L", "e", "y", " ", "G", "e", "n", "e", "r", "a", "l", " ", "d", "e",
      " ", "S", "a", "l", "u", "d", "\n", "P", "L", "A", "N", "\n", "3", "0",
      " ", "d", "í", "a", "s">>

TextTerms ==
    <<"3", "0", " ", "d", "í", "a", "s", " ", "y", " ", "5", "%", "\n", "P",
      "l", "a", "n", " ", "A", "n", "u", "a", "l">>

ComparerTexts ==
    {TextAB, TextBACB, TextShort, TextLong, TextLaws, TextHealth, TextTerms}

ComparisonTypes == {"full", "terminology", "numeric", "structure"}

\* One call of compare_documents. The comparer keeps nothing from one call
\* to the next, so a call is made from the state after construction.
CallCompareDocuments(doc1_content, doc2_content, comparison_type) ==
    /\ comparer_call = [op |-> "none"]
    /\ comparer_call' = [op |-> "compare_documents",
                         doc1_content |-> doc1_content,
                         doc2_content |-> doc2_content,
                         comparison_type |-> comparison_type]
    /\ comparer_result' = compare_documents(doc1_content, doc2_content,
                                            "Documento 1", "Documento 2",
                                            comparison_type)
    /\ UNCHANGED <<corpus, client, session_vars, reader_vars, analyzer_call,
                   analyzer_result, float_ties, process_vars>>

InitComparer ==
    /\ client = FALSE
    /\ corpus = LoopCorpus
    /\ IdleSession
    /\ analyzer_call = [op |-> "none"]
    /\ analyzer_result = NoPayload
    /\ float_ties \in BOOLEAN
    /\ comparer_call = [op |-> "none"]
    /\ comparer_result = NoPayload
    /\ IdleProcess

NextComparer ==
    \E doc1_content \in ComparerTexts, doc2_content \in ComparerTexts,
       comparison_type \in ComparisonTypes :
        CallCompareDocuments(doc1_content, doc2_content, comparison_type)

SpecComparer == InitComparer /\ [][NextComparer]_vars

-----------------------------------------------------------------------------
(* Properties of the comparer                                              *)

CompareCalled == comparer_call.op = "compare_documents"

\* The similarity ratio a result reports for its kind of comparison.
RatioOf(result) ==
    CASE result.comparison_type = "terminology" -> result.terminology_similarity
      [] result.comparison_type = "structure" -> result.structure_similarity
      [] result.comparison_type = "full" -> result.text_similarity

\* What the latest call would have returned with its two texts exchanged.
Exchanged ==
    compare_documents(comparer_call.doc2_content, comparer_call.doc1_content,
                      "Documento 2", "Documento 1", comparer_call.comparison_type)

\* C15: the terminology, structure and whole-text similarity ratios are
\* symmetric: comparing A with B reports the same ratio as comparing B
\* with A.
C15_RatiosSymmetric ==
    (CompareCalled /\ comparer_call.comparison_type \in {"terminology", "structure", "full"})
        => RatioOf(comparer_result) = RatioOf(Exchanged)

\* The terminology ratio, a ratio of set sizes, is symmetric.
C15_TerminologySymmetric ==
    (CompareCalled /\ comparer_call.comparison_type = "terminology")
        => RatioOf(comparer_result) = RatioOf(Exchanged)

-----------------------------------------------------------------------------
(* Cancellation                                                            *)

\* A step of the session that ends it cancelled, with the log as it stands.
Aborts ==
    /\ Next
    /\ outcome'.status = "cancelled"
    /\ HasKey(outcome', "tool_use_log")
    /\ outcome'.tool_use_log = tool_use_log

\* Between two iterations: at the head of the loop, an iteration done.
BetweenIterations == pc = "AWAITING_PLANNER" /\ iteration >= 1

\* C16: a session can be aborted between two iterations of the loop, and
\* never while an operation is dispatched; the aborted session returns the
\* log accumulated so far with an outcome tagged cancelled.
C16_AbortableBetweenIterations ==
    /\ BetweenIterations => ENABLED Aborts
    /\ pc = "DISPATCHING" => ~ENABLED Aborts

\* The outcomes a session does have: none is tagged cancelled, and a
\* session between iterations goes on to its next planner call or stops
\* exhausted.
C16_NoCancelledOutcome ==
    /\ outcome.status \in {"none", "completed", "error", "max_iterations_reached"}
    /\ ~ENABLED Aborts

(***************************************************************************)
(* Requests served by one process.  routes.py builds one orchestrator at   *)
(* import; its reader opens one database session in its constructor and    *)
(* every /analyze request goes through that orchestrator.  The handler is  *)
(* a coroutine that calls the orchestrator synchronously, so the event     *)
(* loop serves one request at a time.  The loop's iteration counter and    *)
(* log are locals of the call.                                             *)
(***************************************************************************)
MaxSessionSteps == 2

\* The orchestrator every request uses, and the handle its reader holds.
orchestrator == [reader |-> [db |-> 1]]

InHandler(s) == sessions[s].pc = "running"

\* POST /analyze arrives and the handler starts the analysis of doc_id.
BeginSession(s, doc_id) ==
    /\ sessions[s].pc = "idle"
    /\ \A other \in SessionIds : ~InHandler(other)
    /\ sessions' = [sessions EXCEPT ![s] = [pc |-> "running", doc_id |-> doc_id, iteration |-> 0, tool_use_log |-> 0, db |-> 0]]
    /\ UNCHANGED db_handles

\* A query through a handle: the session begins a transaction that nothing
\* commits, rolls back or closes while the process serves requests.
Query(handle) == [handle EXCEPT !.in_transaction = TRUE]

\* One iteration of the session's loop whose dispatch reads through the
\* orchestrator's reader.
SessionStep(s) ==
    /\ InHandler(s)
    /\ sessions[s].iteration < max_iterations
    /\ sessions[s].iteration < MaxSessionSteps
    /\ sessions' = [sessions EXCEPT ![s].iteration = @ + 1, ![s].tool_use_log = @ + 1, ![s].db = orchestrator.reader.db]
    /\ db_handles' = [db_handles EXCEPT ![orchestrator.reader.db] = Query(@)]

\* The analysis returns and the handler answers the request.
EndSession(s) ==
    /\ InHandler(s)
    /\ sessions' = [sessions EXCEPT ![s].pc = "done"]
    /\ UNCHANGED db_handles

InitSessions ==
    /\ corpus = LoopCorpus
    /\ client \in BOOLEAN
    /\ IdleSession
    /\ IdleServers

NextSessions ==
    \/ \E s \in SessionIds, doc_id \in DocIds(corpus) : BeginSession(s, doc_id) /\ UNCHANGED <<corpus, client, session_vars, reader_vars, analyzer_call, analyzer_result, float_ties, comparer_call, comparer_result>>
    \/ \E s \in SessionIds : SessionStep(s) /\ UNCHANGED <<corpus, client, session_vars, reader_vars, analyzer_call, analyzer_result, float_ties, comparer_call, comparer_result>>
    \/ \E s \in SessionIds : EndSession(s) /\ UNCHANGED <<corpus, client, session_vars, reader_vars, analyzer_call, analyzer_result, float_ties, comparer_call, comparer_result>>

SpecSessions == InitSessions /\ [][NextSessions]_vars

(***************************************************************************)
(* Properties of sessions in one process                                   *)
(***************************************************************************)
DistinctTargets(s1, s2) ==
    /\ s1 # s2
    /\ sessions[s1].pc # "idle"
    /\ sessions[s2].pc # "idle"
    /\ sessions[s1].doc_id # sessions[s2].doc_id

\* C17: two analysis sessions for distinct targets share no mutable state:
\* no object read with state by one session, the corpus read handle
\* included, is used by the other.  Stated for the handle: two sessions
\* for distinct targets that have both read never used the same handle.
C17_SessionsShareNothing ==
    \A s1, s2 \in SessionIds :
        (DistinctTargets(s1, s2) /\ sessions[s1].db # 0 /\ sessions[s2].db # 0)
            => sessions[s1].db # sessions[s2].db

\* The sessions of one process never run at the same time.
C17_Serialised ==
    \A s1, s2 \in SessionIds : (InHandler(s1) /\ InHandler(s2)) => s1 = s2

\* The iteration counter and the log of a session change only in a step of
\* that session: a step changes at most one session's record.
C17_LoopStateOwn ==
    [][\A s1, s2 \in SessionIds :
          (sessions'[s1] # sessions[s1] /\ sessions'[s2] # sessions[s2]) => s1 = s2]_vars

-----------------------------------------------------------------------------
(* The operation catalog: TOOLS                                            *)

\* The required fields each catalog entry declares in its input_schema.
TOOLS ==
    [read_document |-> [required |-> {"doc_id"}],
     list_documents |-> [required |-> {}],
     get_document_hierarchy |-> [required |-> {"doc_id"}],
     compare_documents |-> [required |-> {"doc1_id", "doc2_id"}],
     detect_contradictions |-> [required |-> {"target_doc_id", "rector_doc_ids"}],
     extract_key_terms |-> [required |-> {"doc_id"}]]

(***************************************************************************)
(* Properties of catalog requests                                          *)
(***************************************************************************)
\* The document identifiers a request names.
NamedIds(input) ==
    UNION {IF f = "rector_doc_ids"
           THEN (IF input[f] = None THEN {} ELSE {Get(input[f])[i] : i \in DOMAIN Get(input[f])})
           ELSE {input[f]} : f \in DOMAIN input \cap {"doc_id", "doc1_id", "doc2_id", "target_doc_id", "rector_doc_ids"}}

\* A request for a catalog operation with exactly the fields the catalog
\* declares as required, naming existing documents.
CatalogRequest(block) ==
    /\ block.name \in DOMAIN TOOLS
    /\ DOMAIN block.input = TOOLS[block.name].required
    /\ HasKey(block.input, "rector_doc_ids") => block.input.rector_doc_ids # None
    /\ NamedIds(block.input) \subseteq DocIds(corpus)

\* The i-th request of the latest reply was answered with an error payload.
AnsweredWithError(i) == IsErrorPayload(tool_results[i].content.json)

DispatchReturned ==
    /\ JustDispatched
    /\ pc = "AWAITING_PLANNER"
    /\ Len(tool_results) = Len(ToolUseBlocks(response.content))

\* C18: every catalog operation invoked with exactly the required fields the
\* catalog declares, naming existing documents, is dispatched to its
\* operation and is not answered with an error payload.
C18_CatalogRequestsDispatched ==
    DispatchReturned =>
        \A i \in DOMAIN tool_results :
            CatalogRequest(ToolUseBlocks(response.content)[i]) => ~AnsweredWithError(i)

\* The same for every catalog operation but compare_documents.
C18_ExceptCompare ==
    DispatchReturned =>
        \A i \in DOMAIN tool_results :
            (/\ CatalogRequest(ToolUseBlocks(response.content)[i])
             /\ ToolUseBlocks(response.content)[i].name # "compare_documents")
                => ~AnsweredWithError(i)

\* A catalog request for detect_contradictions has been answered without
\* an error payload.
C18_OthersAnswered ==
    /\ DispatchReturned
    /\ \E i \in DOMAIN tool_results :
          /\ CatalogRequest(ToolUseBlocks(response.content)[i])
          /\ ToolUseBlocks(response.content)[i].name = "detect_contradictions"
          /\ ~AnsweredWithError(i)

(***************************************************************************)
(* Properties of the detect invocations                                    *)
(***************************************************************************)
\* The arguments of the detect invocations whose results the state holds:
\* those of the latest dispatch and that of the fallback path.
DetectInvocations ==
    {tool_results[i].content.json.analysis_of :
        i \in {j \in DOMAIN tool_results : HasKey(tool_results[j].content.json, "analysis_of")}}
    \cup (IF FallbackDetected THEN {outcome.result.analysis.analysis_of} ELSE {})

Outranks(rector_metadata, target_metadata) ==
    rector_metadata.nivel_jerarquico < target_metadata.nivel_jerarquico

AllOutrank(invocation) ==
    \A i \in DOMAIN invocation.rector_contents :
        Outranks(invocation.rector_contents[i].metadata, invocation.target_metadata)

\* C20: in every detect invocation, through the planner's dispatch or
\* through the fallback path with identifiers the caller supplied, each
\* governing document has a rank strictly less than the target's.
C20_GoverningOutrankTarget == \A invocation \in DetectInvocations : AllOutrank(invocation)

\* When the caller supplies no identifier the fallback path takes them from
\* the hierarchy, and then every governing document outranks the target.
C20_DefaultedOutrank ==
    (FallbackDetected /\ ~Truthy(request.rector_ids))
        => AllOutrank(outcome.result.analysis.analysis_of)

\* The fallback path has analysed a target against defaulted identifiers.
C20_DefaultedDetected ==
    /\ FallbackDetected
    /\ ~Truthy(request.rector_ids)
    /\ outcome.result.analysis.analysis_of.rector_contents # <<>>

-----------------------------------------------------------------------------
(* Direct calls of the analyzer's rules: _calculate_severity and           *)
(* _values_conflict on arguments of the caller's choice.                   *)

\* The ranks a document can carry: those of TIPO_CONFIG and the default.
Niveles == {TipoNivel(tipo) : tipo \in {"LEY", "REGL", "POL", "DIR", "ISO", "OTRO"}}

CallCalculateSeverity(pattern_type, target_level, rector_level, sensitivity) ==
    /\ analyzer_call = [op |-> "none"]
    /\ analyzer_call' = [op |-> "_calculate_severity",
                         pattern_type |-> pattern_type,
                         target_level |-> target_level,
                         rector_level |-> rector_level,
                         sensitivity |-> sensitivity]
    /\ analyzer_result' = [returned |-> CalculateSeverity(pattern_type, target_level, rector_level, sensitivity)]
    /\ UNCHANGED <<corpus, client, session_vars, reader_vars, float_ties,
                   comparer_call, comparer_result, process_vars>>

\* Values handed to _values_conflict for the numeric types: whole numbers,
\* numbers with decimals, amounts with thousands separators, and values
\* float() rejects.
NumeralValues ==
    {<<"3", "0">>, <<"3", "3">>, <<"3", "6">>, <<"4", "5">>,
     <<"1", ".", "0">>, <<"1", ".", "1">>, <<"2", ".", "5">>,
     <<"5", ",", "0", "0", "0">>, <<"5", ",", "2", "5", "0">>,
     <<"6", ",", "0", "0", "0">>}

RejectedValues == {<<"a", "b", "c">>, <<>>}

\* The values explored for a pattern type: for a marker type, the words of
\* its pattern and one of them as a text in capitals would give it.
ValuesFor(pattern_type) ==
    CASE pattern_type = "obligacion" -> Range(ObligacionWords) \cup {<<"D", "e", "b", "e">>}
      [] pattern_type = "prohibicion" -> Range(ProhibicionWords) \cup {<<"N", "O", " ", "D", "E", "B", "E">>}
      [] pattern_type = "opcion" -> Range(OpcionWords) \cup {<<"P", "u", "e", "d", "e">>}
      [] pattern_type = "autoriza" -> Range(AutorizaWords)
      [] pattern_type = "deniega" -> Range(DeniegaWords)
      [] OTHER -> NumeralValues \cup RejectedValues

\* An exception raised inside _values_conflict is caught there: the call
\* returns a boolean whatever the values.
CallValuesConflict(target_val, rector_val, pattern_type, sensitivity) ==
    /\ analyzer_call = [op |-> "none"]
    /\ analyzer_call' = [op |-> "_values_conflict",
                         target_val |-> target_val,
                         rector_val |-> rector_val,
                         pattern_type |-> pattern_type,
                         sensitivity |-> sensitivity]
    /\ analyzer_result' = [returned |-> ValuesConflict(target_val, rector_val, pattern_type, sensitivity)]
    /\ UNCHANGED <<corpus, client, session_vars, reader_vars, float_ties,
                   comparer_call, comparer_result, process_vars>>

InitRules == InitAnalyzer

NextRules ==
    \/ \E k \in DOMAIN PatternTypes, target_level \in Niveles, rector_level \in Niveles, sensitivity \in Sensitivities :
          CallCalculateSeverity(PatternTypes[k], target_level, rector_level, sensitivity)
    \/ \E k \in DOMAIN PatternTypes, sensitivity \in Sensitivities :
          \E target_val \in ValuesFor(PatternTypes[k]), rector_val \in ValuesFor(PatternTypes[k]) :
             CallValuesConflict(target_val, rector_val, PatternTypes[k], sensitivity)

SpecRules == InitRules /\ [][NextRules]_vars

(***************************************************************************)
(* Properties of the analyzer's rules                                      *)
(***************************************************************************)
SeverityCalled == analyzer_call.op = "_calculate_severity"

\* The base severity of each fact type.
BaseSeverity(pattern_type) ==
    IF pattern_type \in {"plazo_dias", "plazo_meses", "plazo_años", "monto_soles", "monto_dolares", "autoriza"}
    THEN "high"
    ELSE IF pattern_type \in {"porcentaje", "opcion"} THEN "medium"
    ELSE "critical"

\* medium becomes high when the target is more than two ranks below.
AfterRankStep(severity, target_level, rector_level) ==
    IF severity = "medium" /\ target_level - rector_level > 2 THEN "high" ELSE severity

\* high becomes critical under strict.
AfterStrictStep(severity, sensitivity) ==
    IF severity = "high" /\ sensitivity = "strict" THEN "critical" ELSE severity

\* C21: for every fact type, rank pair and sensitivity, _calculate_severity
\* returns the base severity of the fact type (periods, currency and
\* authorization high; percentage and permission medium; obligation,
\* prohibition and denial critical) after the rank step and then the strict
\* step, and the result is one of medium, high and critical.
C21_SeverityRules ==
    SeverityCalled =>
        /\ analyzer_result.returned =
              AfterStrictStep(AfterRankStep(BaseSeverity(analyzer_call.pattern_type),
                                            analyzer_call.target_level,
                                            analyzer_call.rector_level),
                              analyzer_call.sensitivity)
        /\ analyzer_result.returned \in {"medium", "high", "critical"}

\* A medium fact type, more than two ranks apart, under strict: both steps
\* apply and the result is critical.
C21_Witness ==
    /\ SeverityCalled
    /\ BaseSeverity(analyzer_call.pattern_type) = "medium"
    /\ analyzer_call.target_level - analyzer_call.rector_level > 2
    /\ analyzer_call.sensitivity = "strict"
    /\ analyzer_result.returned = "critical"

ConflictCalled == analyzer_call.op = "_values_conflict"

PeriodOrPercentage == {"plazo_dias", "plazo_meses", "plazo_años", "porcentaje"}

Currency == {"monto_soles", "monto_dolares"}

\* The text the claim has parsed: commas are stripped for currency only.
Parsed(value, pattern_type) ==
    IF pattern_type \in Currency THEN StripCommas(value) ELSE value

\* |t - r| > (percent / 100) * r, in exact arithmetic on the fractions.
Exceeds(t, r, percent) ==
    100 * Abs(t.num * r.den - r.num * t.den) > percent * r.num * t.den

\* The tolerance of the claim, in percent.
Tolerance(pattern_type, sensitivity) ==
    IF pattern_type \in Currency THEN 5
    ELSE IF sensitivity = "moderate" THEN 10 ELSE 20

\* What the claim says _values_conflict decides for a numeric type.
ThresholdRule(target_val, rector_val, pattern_type, sensitivity) ==
    IF IsNumeral(Parsed(target_val, pattern_type)) /\ IsNumeral(Parsed(rector_val, pattern_type))
    THEN IF sensitivity = "strict"
         THEN ParseFloat(target_val).num * ParseFloat(rector_val).den
                 # ParseFloat(rector_val).num * ParseFloat(target_val).den
         ELSE Exceeds(ParseFloat(target_val), ParseFloat(rector_val),
                      Tolerance(pattern_type, sensitivity))
    ELSE FALSE

NumericCall ==
    /\ ConflictCalled
    /\ analyzer_call.pattern_type \in PeriodOrPercentage \cup Currency

\* C22: for numeric values t and r, _values_conflict decides t # r under
\* strict, and otherwise |t - r| > k * r with k = 10% (moderate) or 20%
\* (flexible) for periods and percentages and k = 5% for currency, commas
\* stripped; a value that is no number never conflicts.
C22_ThresholdRule ==
    NumericCall =>
        analyzer_result.returned =
            ThresholdRule(analyzer_call.target_val, analyzer_call.rector_val,
                          analyzer_call.pattern_type, analyzer_call.sensitivity)

\* The difference of the two values is exactly the tolerance and one of
\* them has decimals.
AtTolerance ==
    /\ analyzer_call.sensitivity # "strict"
    /\ IsNumeral(Parsed(analyzer_call.target_val, analyzer_call.pattern_type))
    /\ IsNumeral(Parsed(analyzer_call.rector_val, analyzer_call.pattern_type))
    /\ LET t == ParseFloat(analyzer_call.target_val)
           r == ParseFloat(analyzer_call.rector_val)
       IN  /\ 100 * Abs(t.num * r.den - r.num * t.den)
                 = Tolerance(analyzer_call.pattern_type, analyzer_call.sensitivity) * r.num * t.den
           /\ t.den > 1 \/ r.den > 1
           /\ r.num > 0

\* The rule of C22 holds wherever the difference is not exactly the
\* tolerance.
C22_RuleAwayFromTolerance ==
    (NumericCall /\ ~AtTolerance) =>
        analyzer_result.returned =
            ThresholdRule(analyzer_call.target_val, analyzer_call.rector_val,
                          analyzer_call.pattern_type, analyzer_call.sensitivity)

\* A value float() rejects never conflicts.
C22_RejectedNeverConflict ==
    (/\ NumericCall
     /\ \/ ~IsNumeral(Parsed(analyzer_call.target_val, analyzer_call.pattern_type))
        \/ ~IsNumeral(Parsed(analyzer_call.rector_val, analyzer_call.pattern_type)))
        => analyzer_result.returned = FALSE

\* A call with a rejected value has returned.
C22_RejectedCalled ==
    /\ NumericCall
    /\ ~IsNumeral(Parsed(analyzer_call.target_val, analyzer_call.pattern_type))
    /\ analyzer_result.returned = FALSE

(***************************************************************************)
(* Properties of the compliance score                                      *)
(***************************************************************************)
\* The penalty of the claim over a list of reported items, in twentieths:
\* 0.20 per critical, 0.10 per high, 0.05 per any other item.
PenaltyOver(items) ==
    4 * Len(SelectSeq(items, LAMBDA c : c.severity = "critical"))
        + 2 * Len(SelectSeq(items, LAMBDA c : c.severity = "high"))
        + Len(SelectSeq(items, LAMBDA c : c.severity \notin {"critical", "high"}))

\* score, in thousandths, is n / d rounded to three decimals (a value
\* halfway between two thousandths either way).
RoundsTo(score, n, d) == 2 * Abs(score * d - 1000 * n) <= d

\* score is what the claim's formula gives for the penalty and the checks.
ScoreIs(score, penalty, total_checks) ==
    IF total_checks = 0 THEN score = 1000
    ELSE IF penalty >= 20 * total_checks THEN score = 0
    ELSE RoundsTo(score, 20 * total_checks - penalty, 20 * total_checks)

\* C23: the compliance score is 1.0 when total_checks (fact types found in
\* the target times governing documents examined) is zero, and otherwise
\* max(0, 1 - penalty / total_checks) rounded to three decimals, the penalty
\* adding 0.20 per critical contradiction, 0.10 per high contradiction and
\* 0.05 per any other reported item.
C23_ScoreFormula ==
    DetectCalled =>
        ScoreIs(analyzer_result.compliance_score,
                PenaltyOver(analyzer_result.contradictions \o analyzer_result.warnings),
                TotalChecks)

\* The score follows the formula when the penalty is taken over the
\* contradictions list alone.
C23_ScoreOfContradictions ==
    DetectCalled =>
        ScoreIs(analyzer_result.compliance_score,
                PenaltyOver(analyzer_result.contradictions),
                TotalChecks)

\* A call with no check to make has scored 1.0.
C23_ZeroChecksScored ==
    /\ DetectCalled
    /\ TotalChecks = 0
    /\ analyzer_result.compliance_score = 1000

(***************************************************************************)
(* Properties of the conversation and the log                              *)
(***************************************************************************)
\* A session of the planner path has been started.
InLoop == client /\ pc # "IDLE"

\* The iterations so far whose reply requested operations.
RequestingIterations ==
    Cardinality({i \in DOMAIN tool_use_log : tool_use_log[i].stop_reason = "tool_use"})

RoleAt(i) == IF i % 2 = 1 THEN "user" ELSE "assistant"

\* C24: in the loop the conversation starts with the user's directive and
\* its roles alternate user, assistant, user, ...; an iteration whose reply
\* requests operations appends the reply and then the results, any other
\* iteration appends nothing, so between iterations the conversation holds
\* 1 + 2 x (requesting iterations so far) messages, and what is submitted to
\* the planner ends with a user message. (While the operations of a reply
\* are being dispatched, its results are still to come.)
C24_ConversationAlternates ==
    InLoop =>
        /\ Len(messages) >= 1
        /\ messages[1] = Message("user", "prompt", 0)
        /\ \A i \in DOMAIN messages : messages[i].role = RoleAt(i)
        /\ pc = "DISPATCHING" => Len(messages) = 2 * RequestingIterations
        /\ pc # "DISPATCHING" => Len(messages) = 1 + 2 * RequestingIterations
        /\ pc = "AWAITING_PLANNER" => messages[Len(messages)].role = "user"

\* Between iterations, after two requesting iterations and one reply of
\* another kind.
C24_Witness ==
    /\ InLoop
    /\ pc = "AWAITING_PLANNER"
    /\ RequestingIterations >= 2
    /\ iteration > RequestingIterations
    /\ Len(messages) = 1 + 2 * RequestingIterations

\* The latest planner call raised: the session failed with no reply logged
\* for its last iteration.
FailedInPlannerCall == pc = "FAILED" /\ trace = <<"messages.create">>

\* C25: in the loop the log holds one entry per planner reply received, in
\* iteration order, entry i carrying iteration index i; so log length <=
\* iteration counter <= log length + 1, a COMPLETED or EXHAUSTED outcome
\* reports iterations equal to the log length, and a FAILED outcome caused
\* by a failed planner call reports iterations equal to log length + 1.
C25_LogFollowsIterations ==
    InLoop =>
        /\ \A i \in DOMAIN tool_use_log : tool_use_log[i].iteration = i
        /\ Len(tool_use_log) <= iteration
        /\ iteration <= Len(tool_use_log) + 1
        /\ pc \in {"COMPLETED", "EXHAUSTED"} =>
              /\ outcome.iterations = Len(tool_use_log)
              /\ iteration = Len(tool_use_log)
        /\ FailedInPlannerCall =>
              /\ outcome.iterations = Len(tool_use_log) + 1
              /\ outcome.tool_use_log = tool_use_log

\* A planner call failed after replies had been received.
C25_Witness ==
    /\ InLoop
    /\ FailedInPlannerCall
    /\ Len(tool_use_log) >= 2
    /\ outcome.iterations = Len(tool_use_log) + 1

\* A session has been exhausted with a full log.
C25_ExhaustedReached ==
    /\ InLoop
    /\ pc = "EXHAUSTED"
    /\ outcome.iterations = max_iterations
    /\ Len(tool_use_log) = max_iterations

(***************************************************************************)
(* Properties of a dispatch                                                *)
(***************************************************************************)
\* C26: the operations requested in one reply are dispatched one after the
\* other in the order requested, and the results fed back hold exactly one
\* result per requested operation, in the same order, each tagged with the
\* identifier of the request it answers and holding what the dispatcher
\* returns for it; a failing operation does not keep the later ones from
\* being dispatched.
C26_OneResultPerRequest ==
    (InLoop /\ JustDispatched) =>
        LET blocks == ToolUseBlocks(response.content) IN
        /\ pc = "AWAITING_PLANNER"
        /\ trace = [i \in DOMAIN blocks |-> blocks[i].name]
        /\ Len(tool_results) = Len(blocks)
        /\ \A i \in DOMAIN blocks :
              /\ tool_results[i].type = "tool_result"
              /\ tool_results[i].tool_use_id = blocks[i].id
              /\ tool_results[i].content.json
                    \in DispatchTool(corpus, blocks[i].name, blocks[i].input)

\* Three operations were requested, the first failed, and the two after it
\* were dispatched and answered.
C26_Witness ==
    /\ InLoop
    /\ JustDispatched
    /\ Len(tool_results) = 3
    /\ IsErrorPayload(tool_results[1].content.json)
    /\ ~IsErrorPayload(tool_results[2].content.json)
    /\ tool_results[3].tool_use_id = ToolUseId(3)
    /\ trace = <<"detect_contradictions", "get_document_hierarchy", "read_document">>

-----------------------------------------------------------------------------
(* Sessions with a planner that keeps answering with a stop signal that is *)
(* neither end_turn nor tool_use.                                          *)

StalledRequests ==
    {<<doc_id, rector_ids>> :
        doc_id \in {"DOC_A", "DOC_C", GhostId},
        rector_ids \in {None, Some(<<>>), Some(<<"DOC_A">>)}}

InitStalled ==
    /\ client = TRUE
    /\ corpus = LoopCorpus
    /\ IdleSession
    /\ IdleServers

NextStalled ==
    \/ \E r \in StalledRequests : AnalyzeDocument(r[1], r[2])
    \/ \E stop_reason \in OtherStopReasons : PlannerStalls(stop_reason)
    \/ LoopExits

\* Every planner call returns, and the loop runs on.
SpecStalled ==
    /\ InitStalled
    /\ [][NextStalled]_vars
    /\ WF_vars(\E stop_reason \in OtherStopReasons : PlannerStalls(stop_reason))
    /\ WF_vars(LoopExits)

\* A step in which a reply was received whose stop signal is neither
\* end_turn nor tool_use.
OtherReplyReceived ==
    /\ Len(tool_use_log') = Len(tool_use_log) + 1
    /\ tool_use_log'[Len(tool_use_log')].stop_reason \notin {"end_turn", "tool_use"}

\* C27: a reply whose stop signal is neither end_turn nor tool_use leaves
\* the conversation unchanged and dispatches nothing, yet takes one
\* iteration and one log entry, and the same conversation goes to the
\* planner again; a planner that keeps giving such replies drives the
\* session to EXHAUSTED, never to COMPLETED or FAILED.
C27_OtherRepliesExhaust ==
    /\ [][OtherReplyReceived =>
            /\ messages' = messages
            /\ tool_results' = <<>>
            /\ trace' = <<"messages.create">>
            /\ iteration' = iteration + 1
            /\ tool_use_log'[Len(tool_use_log')].iteration = iteration'
            /\ pc' = "AWAITING_PLANNER"]_vars
    /\ [](pc \notin {"COMPLETED", "FAILED"})
    /\ [](pc = "EXHAUSTED" =>
            /\ outcome.status = "max_iterations_reached"
            /\ outcome.iterations = max_iterations
            /\ messages = <<Message("user", "prompt", 0)>>)
    /\ (pc = "AWAITING_PLANNER") ~> (pc = "EXHAUSTED")

\* A session exhausted by fifteen such replies, its conversation still the
\* initial directive alone.
C27_Witness ==
    /\ pc = "EXHAUSTED"
    /\ Len(tool_use_log) = max_iterations
    /\ \A i \in DOMAIN tool_use_log : tool_use_log[i].stop_reason \in OtherStopReasons
    /\ Len(messages) = 1

(***************************************************************************)
(* Properties of the modality markers                                      *)
(***************************************************************************)
MarkerTypes == {"obligacion", "prohibicion", "opcion", "autoriza", "deniega"}

MarkerCall == ConflictCalled /\ analyzer_call.pattern_type \in MarkerTypes

\* The value is 'no debe' or 'no deberá', in any case of letters.
NoDebe(value) ==
    LowerStr(value) \in {<<"n", "o", " ", "d", "e", "b", "e">>,
                         <<"n", "o", " ", "d", "e", "b", "e", "r", "á">>}

\* C28: over the values the patterns can extract, a modality conflict is
\* reported only for the prohibition type and only when the target's value
\* and the governing value are both 'no debe' or 'no deberá'; no pair of
\* obligation markers and no pair of permission markers conflicts, and
\* authorization and denial markers never conflict, under any sensitivity.
C28_OnlyProhibitionsConflict ==
    MarkerCall =>
        /\ analyzer_result.returned =>
              /\ analyzer_call.pattern_type = "prohibicion"
              /\ NoDebe(analyzer_call.target_val)
              /\ NoDebe(analyzer_call.rector_val)
        /\ analyzer_call.pattern_type \in {"obligacion", "opcion", "autoriza", "deniega"}
              => ~analyzer_result.returned

\* Two prohibition markers 'no debe', one of them in capitals, conflict.
C28_Witness ==
    /\ MarkerCall
    /\ analyzer_call.pattern_type = "prohibicion"
    /\ NoDebe(analyzer_call.target_val)
    /\ analyzer_call.rector_val = <<"N", "O", " ", "D", "E", "B", "E">>
    /\ analyzer_result.returned

\* In the results of detect_contradictions on texts, every item of a marker
\* type is a prohibition with 'no debe' on both sides.
C28_DetectedMarkers ==
    DetectCalled =>
        \A c \in Range(analyzer_result.contradictions) \cup Range(analyzer_result.warnings) :
            c.type \in MarkerTypes =>
                /\ c.type = "prohibicion"
                /\ NoDebe(c.target_value)
                /\ NoDebe(c.rector_value)

(***************************************************************************)
(* Properties of the warnings                                              *)
(***************************************************************************)
\* C29: warnings never change the compliance score: the score is that of
\* the contradictions list and total_checks alone, so analyses with the
\* same contradictions and checks and different warnings score the same
\* (here: the same texts under another sensitivity); the 0.05 penalty is
\* never applied, no contradiction being of any severity but critical or
\* high; and medium_issues is 0 however many medium warnings were found.
C29_WarningsCostNothing ==
    DetectCalled =>
        LET total_checks == TotalChecks
            others == [sensitivity \in Sensitivities \ {analyzer_call.sensitivity} |->
                          ResultUnder(sensitivity)]
        IN  /\ analyzer_result.compliance_score
                  = ComplianceScore(analyzer_result.contradictions, total_checks)
            /\ ScoreIs(analyzer_result.compliance_score,
                       4 * analyzer_result.analysis_summary.critical_issues
                         + 2 * analyzer_result.analysis_summary.high_issues,
                       total_checks)
            /\ \A c \in Range(analyzer_result.contradictions) :
                  c.severity \in {"critical", "high"}
            /\ analyzer_result.analysis_summary.medium_issues = 0
            /\ \A sensitivity \in DOMAIN others :
                  others[sensitivity].contradictions = analyzer_result.contradictions
                      => others[sensitivity].compliance_score
                            = analyzer_result.compliance_score

\* An analysis with contradictions and medium warnings, and the same texts
\* under another sensitivity with the same contradictions and other
\* warnings.
C29_Witness ==
    /\ DetectCalled
    /\ analyzer_result.contradictions_found > 0
    /\ \E w \in Range(analyzer_result.warnings) : w.severity = "medium"
    /\ analyzer_result.analysis_summary.medium_issues = 0
    /\ \E sensitivity \in Sensitivities :
          /\ ResultUnder(sensitivity).contradictions = analyzer_result.contradictions
          /\ ResultUnder(sensitivity).warnings # analyzer_result.warnings

(***************************************************************************)
(* Properties of the governing documents that cannot be read               *)
(***************************************************************************)
\* The identifiers of a list that the Document Reader can read, in order.
ReadableIds(c, ids) == SelectSeq(ids, LAMBDA id : id \in DocIds(c))

\* What the loop gathers for identifiers that can all be read.
ContentsOf(c, ids) ==
    [i \in DOMAIN ids |->
        LET rector == ReadDocument(c, ids[i], None) IN
        [content |-> rector.content, metadata |-> rector.metadata]]

\* The detect requests of the latest dispatch that name a target and a list
\* of governing documents, by position.
ListedDetections ==
    IF JustDispatched /\ pc = "AWAITING_PLANNER"
    THEN {i \in DOMAIN tool_results :
            LET block == ToolUseBlocks(response.content)[i] IN
            /\ block.name = "detect_contradictions"
            /\ HasKey(block.input, "target_doc_id")
            /\ HasKey(block.input, "rector_doc_ids")
            /\ block.input.rector_doc_ids # None}
    ELSE {}

\* The payload is a successful analysis of the target against exactly the
\* governing documents of ids that can be read, and names no error.
AnalysedAgainstReadable(payload, target_doc_id, ids) ==
    /\ ~HasKey(payload, "error")
    /\ payload.success
    /\ payload.analysis_of.target_content = ReadDocument(corpus, target_doc_id, None).content
    /\ payload.analysis_of.rector_contents = ContentsOf(corpus, ReadableIds(corpus, ids))
    /\ payload.analysis_summary.total_rectores_checked = Len(ReadableIds(corpus, ids))

\* The analyzer's report on a target checked against no governing document
\* at all: a success with no check made, nothing found and a score of 1.0.
NothingToCheck(target, sensitivity) ==
    LET result == detect_contradictions(target[1], target[2], <<>>, sensitivity) IN
    /\ result.success
    /\ result.analysis_summary.total_rectores_checked = 0
    /\ result.compliance_score = ComplianceScore(<<>>, 0)
    /\ result.analysis_summary.recommendation = GenerateRecommendation(<<>>, 0)
    /\ result.contradictions_found = 0
    /\ result.contradictions = <<>>
    /\ result.compliance_score = 1000

\* A detection that ran with an empty rector_contents has the analyzer's
\* report on no governing document, whatever the target says.
EmptyAnalysisClean(invocation) ==
    invocation.rector_contents = <<>> =>
        \A target \in AnalyzerDocs : NothingToCheck(target, invocation.sensitivity)

\* C30: a governing identifier that cannot be read is skipped, in the
\* dispatcher's detect branch and on the fallback path: the analysis succeeds
\* against the documents that were read, total_rectores_checked counts only
\* those, with none of them readable the report has no contradiction and a
\* score of 1.0, and an error is returned only when the target cannot be read.
C30_UnreadableRectorsSkipped ==
    /\ \A i \in ListedDetections :
          LET tool_input == ToolUseBlocks(response.content)[i].input
              payload == tool_results[i].content.json
          IN  IF tool_input.target_doc_id \in DocIds(corpus)
              THEN /\ AnalysedAgainstReadable(payload, tool_input.target_doc_id,
                                              Get(tool_input.rector_doc_ids))
                   /\ EmptyAnalysisClean(payload.analysis_of)
              ELSE IsErrorPayload(payload)
    /\ (~client /\ pc \in Terminal /\ Truthy(request.rector_ids)) =>
          IF request.doc_id \in DocIds(corpus)
          THEN /\ FallbackDetected
               /\ outcome.status = "completed"
               /\ AnalysedAgainstReadable(outcome.result.analysis, request.doc_id,
                                          Get(request.rector_ids))
               /\ EmptyAnalysisClean(outcome.result.analysis.analysis_of)
          ELSE pc = "FAILED" /\ outcome.status = "error"

\* The dispatcher has analysed a readable target against a list none of
\* whose identifiers could be read.
C30_Witness ==
    \E i \in ListedDetections :
        LET tool_input == ToolUseBlocks(response.content)[i].input IN
        /\ tool_input.target_doc_id \in DocIds(corpus)
        /\ Get(tool_input.rector_doc_ids) # <<>>
        /\ ReadableIds(corpus, Get(tool_input.rector_doc_ids)) = <<>>
        /\ tool_results[i].content.json.analysis_summary.total_rectores_checked = 0

\* The fallback path has analysed a target none of whose named governing
\* documents could be read.
C30_FallbackNoneRead ==
    /\ FallbackDetected
    /\ Truthy(request.rector_ids)
    /\ outcome.result.analysis.analysis_of.rector_contents = <<>>

\* The dispatcher has analysed a target with one governing document read and
\* one skipped.
C30_DispatchSomeRead ==
    \E i \in ListedDetections :
        LET tool_input == ToolUseBlocks(response.content)[i].input IN
        /\ HasKey(tool_results[i].content.json, "analysis_of")
        /\ Len(tool_results[i].content.json.analysis_of.rector_contents) = 1
        /\ Len(Get(tool_input.rector_doc_ids)) = 2

====
